---- MODULE Spec2Model ----
(***************************************************************************)
(* KitchenSage streaming task-progress pipeline.                           *)
(*                                                                         *)
(*   frontend/src/services/api.ts                  the SSE stream consumer *)
(*       generators mealPlanApi.streamCreate and chatApi.streamMessage     *)
(*   frontend/src/components/AgentActivityPanel.tsx  the progress reducer  *)
(*       (the stream-processing effect) and sanitizeContent                *)
(*   frontend/src/services/api.ts, fetchApi        the request wrapper     *)
(*   frontend/src/pages/ChatPage.tsx               the chat form           *)
(*   the execution runner that produces the events, from its state machine *)
(*                                                                         *)
(* Text is modelled as a sequence of one-character strings, so that        *)
(* includes, split, slice, replace and the regular expressions of the      *)
(* source are computed character by character.  Three non-ASCII characters *)
(* are written as one element each: "U+00E9", "U+2713" (the check mark of  *)
(* the log lines) and "U+26A0" (the warning sign of the error log line).   *)
(***************************************************************************)
EXTENDS Integers, Sequences, FiniteSets, TLC

VARIABLES
    \* ---- api.ts, one run of the stream generator --------------------
    wire,            \* bytes the server has written and the reader has not yet returned
    sentRecs,        \* the records the server wrote, by name (history)
    fragmented,      \* has a read ended inside a record or inside a character (history)
    decoderPending,  \* bytes held back by TextDecoder.decode(value, {stream: true})
    buffer,          \* `buffer`: the unterminated tail carried to the next read
    lines,           \* what is left of `lines` in the for-of loop of the current read
    yielded,         \* the events yielded so far (history)
    gpc,             \* where the generator is: "read", "loop", "done", "threw"
    \* ---- AgentActivityPanel.tsx, sanitizeContent as a function -------
    sanIn,           \* the argument `content`
    sanOut,          \* the value returned
    sanPc,           \* "call" before the call, "ret" after it
    \* ---- MealPlansPage (unnamed/part_005) -----------------------------
    showCreatePanel, \* the panel's isOpen
    eventStream,     \* the panel's eventStream: 0 for null, else the number of the run
    runs,            \* how many streams handleStartCreate has created
    loadsInFlight,   \* calls of loadMealPlans whose fetch has not resolved
    parentDirty,     \* the page has state that is not rendered yet
    \* ---- AgentActivityPanel.tsx, the useState cells -------------------
    activityLog,
    currentActivity,
    currentTool,     \* <<>> for null
    progress,
    isComplete,
    error,           \* <<>> for null
    preview,
    mealPlanResult,  \* <<>> for null
    \* ---- AgentActivityPanel.tsx, the stream-processing effect ---------
    effIsComplete,   \* the isComplete the running processStream closed over
    genQueue,        \* per run: the requests queued on the async generator
    genState,        \* per run: "open", or how the generator completed:
                     \* "ended" (the reader reported done), "returned", "threw"
    produced,        \* events the generators have yielded, all runs together
    script,          \* a scripted server: the events the newest run has still to yield
    \* ---- history of the current run ---------------------------------
    folded,          \* the events processStream has folded, in order
    sentTerminal,    \* the newest run's generator has yielded a complete, error or done
    onCompleteCalls, \* calls of the onComplete prop
    \* ---- api.ts, one call of fetchApi --------------------------------
    apiResponse,     \* what fetch settles with
    apiOutcome,      \* how the promise fetchApi returned settled
    apiPc,           \* "call" before the call, "ret" after it
    \* ---- the execution runner that writes the event stream -----------
    runnerState,     \* "INIT", "RUNNING", "COMPLETE", "FAILED", "CLOSED", "ABORTED"
    subTask,         \* is a sub-task between its tool_start and its tool_result
    emitted,         \* the types of the events emitted, in order
    \* ---- pages/ChatPage.tsx -----------------------------------------
    chatMessages,    \* the useState cell messages
    chatInput,       \* the useState cell input
    chatIsLoading,   \* the useState cell isLoading
    thinkingText,    \* the useState cell thinkingText
    chatShown,       \* input and isLoading as of the last render (what handleSubmit reads)
    chatStreams,     \* per submission that went through: its placeholder and its stream
    chatSubmits      \* submit events delivered to the form

streamVars == <<wire, sentRecs, fragmented, decoderPending, buffer, lines, yielded, gpc>>

sanVars == <<sanIn, sanOut, sanPc>>

pageVars == <<showCreatePanel, eventStream, runs, loadsInFlight, parentDirty>>

stateVars == <<activityLog, currentActivity, currentTool, progress, isComplete, error,
               preview, mealPlanResult>>

effectVars == <<effIsComplete, genQueue, genState, produced, script>>

histVars == <<folded, sentTerminal, onCompleteCalls>>

panelVars == <<pageVars, stateVars, effectVars, histVars>>

apiVars == <<apiResponse, apiOutcome, apiPc>>

runnerVars == <<runnerState, subTask, emitted>>

chatVars == <<chatMessages, chatInput, chatIsLoading, thinkingText, chatShown, chatStreams,
              chatSubmits>>

restVars == <<apiVars, runnerVars, chatVars>>

vars == <<streamVars, sanVars, panelVars, restVars>>

-----------------------------------------------------------------------------
(* Text helpers: JavaScript String methods on sequences of characters.      *)

\* s.slice(start) with a 0-based start, start <= s.length
SliceFrom(s, start) == SubSeq(s, start + 1, Len(s))

\* s.slice(0, n)
SliceTo(s, n) == SubSeq(s, 1, IF Len(s) < n THEN Len(s) ELSE n)

\* s.startsWith(p)
StartsWith(s, p) == Len(p) <= Len(s) /\ SubSeq(s, 1, Len(p)) = p

\* does sub occur in s at the 1-based position i
OccursAt(s, sub, i) == i >= 1 /\ i + Len(sub) - 1 <= Len(s) /\ SubSeq(s, i, i + Len(sub) - 1) = sub

\* s.includes(sub)
Includes(s, sub) == \E i \in 1..(Len(s) - Len(sub) + 1) : OccursAt(s, sub, i)

RECURSIVE FlattenRange(_, _, _)
FlattenRange(ss, lo, hi) ==
    IF lo > hi THEN <<>>
    ELSE IF lo = hi THEN ss[lo]
    ELSE LET mid == (lo + hi) \div 2
         IN  FlattenRange(ss, lo, mid) \o FlattenRange(ss, mid + 1, hi)

\* the concatenation of a sequence of sequences (by halves, so that the depth of
\* the evaluation stays logarithmic in the length)
Flatten(ss) == FlattenRange(ss, 1, Len(ss))

\* the least element of a non-empty set of integers
Least(S) == CHOOSE x \in S : \A y \in S : x <= y

\* the greatest element of a non-empty set of integers
Greatest(S) == CHOOSE x \in S : \A y \in S : y <= x

\* s.split(sep) for a one-character separator: "a\nb\n" gives <<"a", "b", "">>
Split(s, sep) ==
    LET n == Len(s)
        NextSep(i) == Least({j \in (i + 1)..(n + 1) : j = n + 1 \/ s[j] = sep})
        piece == [k \in 1..(n + 1) |->
                    \* k - 1 is the position of a separator, or 0
                    IF k = 1 \/ s[k - 1] = sep
                    THEN <<SubSeq(s, k, NextSep(k - 1) - 1)>>
                    ELSE <<>>]
    IN  Flatten(piece)

\* a || b on strings: the empty string (and undefined) is falsy
Or(a, b) == IF a # <<>> THEN a ELSE b

Front(s) == SubSeq(s, 1, Len(s) - 1)

Last(s) == s[Len(s)]

-----------------------------------------------------------------------------
(* JSON.parse, for the texts the model feeds it: an object whose members    *)
(* are strings ({"k":"v", ...}, with optional white space and the escapes   *)
(* \" \\ \/ \n \r \t \b \f), and texts that are not JSON at all.  The       *)
(* result is [ok, val]: ok = FALSE stands for the SyntaxError thrown, and   *)
(* val is the object as the sequence of its <<key, value>> members.         *)

JsonWs == {" ", "\n", "\r", "\t"}

JsonEscapes == {"\"", "\\", "/", "n", "r", "t", "b", "f"}

JsonUnescape(c) ==
    CASE c = "n" -> "\n"
      [] c = "r" -> "\r"
      [] c = "t" -> "\t"
      [] c = "b" -> "U+0008"
      [] c = "f" -> "\f"
      [] OTHER -> c

JsonFail == [ok |-> FALSE, val |-> <<>>, next |-> 0]

\* the first position >= i that holds no JSON white space (Len(s) + 1 at the end)
SkipWs(s, i) ==
    LET stops == {j \in i..(Len(s) + 1) : j = Len(s) + 1 \/ s[j] \notin JsonWs}
    IN  CHOOSE j \in stops : \A k \in stops : j <= k

\* is the character at position j of s preceded by an odd number of backslashes
\* (counted back to position from), i.e. is it the second character of an escape
Escaped(s, from, j) ==
    LET stop == Greatest({k \in (from - 1)..(j - 1) : k = from - 1 \/ s[k] # "\\"})
    IN  (j - 1 - stop) % 2 = 1

\* the position of the quote that closes the string literal whose characters
\* start at j (Len(s) + 1 if none does)
ClosingQuote(s, j) ==
    Least({k \in j..(Len(s) + 1) : k = Len(s) + 1 \/ (s[k] = "\"" /\ ~Escaped(s, j, k))})

\* the string literal whose characters are s[j..close - 1]
ScanChars(s, j, close) ==
    IF close > Len(s) THEN JsonFail
    ELSE IF \E p \in j..(close - 1) :
              \/ Escaped(s, j, p) /\ s[p] \notin JsonEscapes
              \/ ~Escaped(s, j, p) /\ s[p] \in {"\n", "\r", "\t"}
         THEN JsonFail
    ELSE [ok |-> TRUE,
          val |-> Flatten([k \in 1..(close - j) |->
                             IF Escaped(s, j, j + k - 1) THEN <<JsonUnescape(s[j + k - 1])>>
                             ELSE IF s[j + k - 1] = "\\" THEN <<>>
                             ELSE <<s[j + k - 1]>>]),
          next |-> close + 1]

\* the characters of a string literal from position j (after the opening quote)
ScanString(s, j) == ScanChars(s, j, ClosingQuote(s, j))

ParseString(s, i) ==
    IF i <= Len(s) /\ s[i] = "\"" THEN ScanString(s, i + 1) ELSE JsonFail

RECURSIVE ParseMembers(_, _, _)

\* after the member k: v, at position e: "}" ends the object, "," leads to the next member
ParseMemberEnd(s, e, acc) ==
    IF e > Len(s) THEN JsonFail
    ELSE IF s[e] = "}" THEN [ok |-> TRUE, val |-> acc, next |-> e + 1]
    ELSE IF s[e] = "," THEN ParseMembers(s, SkipWs(s, e + 1), acc)
    ELSE JsonFail

\* the value v of the member whose key is k
ParseMemberValue(s, k, v, acc) ==
    IF ~v.ok THEN JsonFail
    ELSE ParseMemberEnd(s, SkipWs(s, v.next), Append(acc, <<k.val, v.val>>))

\* the colon, at position c, of the member whose key is k
ParseMemberColon(s, k, c, acc) ==
    IF ~(c <= Len(s) /\ s[c] = ":") THEN JsonFail
    ELSE ParseMemberValue(s, k, ParseString(s, SkipWs(s, c + 1)), acc)

\* the member whose key is k
ParseMember(s, k, acc) ==
    IF ~k.ok THEN JsonFail ELSE ParseMemberColon(s, k, SkipWs(s, k.next), acc)

\* members of an object from position i (a key is expected there)
ParseMembers(s, i, acc) == ParseMember(s, ParseString(s, i), acc)

\* the object that opens at position o, with r what was parsed of it
ParseEnd(s, r) ==
    IF r.ok /\ SkipWs(s, r.next) = Len(s) + 1
    THEN [ok |-> TRUE, val |-> r.val]
    ELSE [ok |-> FALSE, val |-> <<>>]

\* the object whose "{" is at position o and whose first token after it is at m
ParseObject(s, o, m) ==
    ParseEnd(s, IF o <= Len(s) /\ s[o] = "{"
                THEN IF m <= Len(s) /\ s[m] = "}"
                     THEN [ok |-> TRUE, val |-> <<>>, next |-> m + 1]
                     ELSE ParseMembers(s, m, <<>>)
                ELSE JsonFail)

JSONParse(s) == ParseObject(s, SkipWs(s, 1), SkipWs(s, SkipWs(s, 1) + 1))

\* obj[key] of a parsed object: the last member of that name, <<>> for undefined
\* (undefined and "" are both falsy where the source reads a member)
Member(obj, key) ==
    LET at == {i \in 1..Len(obj) : obj[i][1] = key}
    IN  IF at = {} THEN <<>>
        ELSE obj[CHOOSE i \in at : \A j \in at : j <= i][2]

-----------------------------------------------------------------------------
(* The stream generators of api.ts.  mealPlanApi.streamCreate (170-229) and *)
(* chatApi.streamMessage (351-404) share the read loop line for line; the   *)
(* line numbers below are those of streamCreate.                            *)

\* bound: how many records the server writes in one run
MaxRecords == 3

DataPrefix == <<"d", "a", "t", "a", ":", " ">>

\* data: {"type":"done"}\n\n
RecDone ==
    <<"d", "a", "t", "a", ":", " ", "{", "\"", "t", "y", "p", "e", "\"", ":", "\"", "d", "o", "n", "e", "\"", "}", "\n", "\n">>

\* data: {"type":"<U+00E9>"}\n\n, the character in UTF-8 (two bytes)
RecAccent ==
    <<"d", "a", "t", "a", ":", " ", "{", "\"", "t", "y", "p", "e", "\"", ":", "\"", "0xC3", "0xA9", "\"", "}", "\n", "\n">>

\* data: {\n\n, a record whose payload is not JSON
RecMalformed ==
    <<"d", "a", "t", "a", ":", " ", "{", "\n", "\n">>

\* data: {"type":"done"} with no line terminator after it
RecCut ==
    <<"d", "a", "t", "a", ":", " ", "{", "\"", "t", "y", "p", "e", "\"", ":", "\"", "d", "o", "n", "e", "\"", "}">>

RecordNames == {"done", "accent", "malformed", "cut"}

RecordBytes(name) ==
    CASE name = "done" -> RecDone
      [] name = "accent" -> RecAccent
      [] name = "malformed" -> RecMalformed
      [] name = "cut" -> RecCut

\* the byte stream of a sequence of records
BytesOf(recs) == Flatten([k \in 1..Len(recs) |-> RecordBytes(recs[k])])

\* TextDecoder on a byte sequence, for the one two-byte character of the model
\* (0xC3 0xA9): a lead byte at the very end is held back, a lead byte followed
\* by anything else and a stray trail byte decode to U+FFFD
DecodeBytes(bytes) ==
    LET n == Len(bytes)
        ch == [i \in 1..n |->
                 IF bytes[i] = "0xC3" THEN
                     IF i = n THEN <<>>
                     ELSE IF bytes[i + 1] = "0xA9" THEN <<"U+00E9">>
                     ELSE <<"U+FFFD">>
                 ELSE IF bytes[i] = "0xA9" THEN
                     IF i > 1 /\ bytes[i - 1] = "0xC3" THEN <<>> ELSE <<"U+FFFD">>
                 ELSE <<bytes[i]>>]
    IN  [text |-> Flatten(ch),
         pending |-> IF n > 0 /\ bytes[n] = "0xC3" THEN <<"0xC3">> ELSE <<>>]

\* decoder.decode(value, { stream: true }): an incomplete character at the end
\* of the chunk is held back and completed by the next chunk
Decode(pending, value) == DecodeBytes(pending \o value)

\* lines.pop() || '' drops the unterminated tail instead of carrying it
NextBufferDropped(ls) == <<>>

\* buffer = lines.pop() || ''
NextBuffer(ls) == Last(ls)

\* the sanitizer call and the panel, when a specification does not run them
SanOff == sanIn = <<>> /\ sanOut = <<>> /\ sanPc = "off"

ApiOff == apiResponse = <<>> /\ apiOutcome = <<>> /\ apiPc = "off"

RunnerOff == runnerState = "off" /\ subTask = FALSE /\ emitted = <<>>

ChatOff ==
    /\ chatMessages = <<>> /\ chatInput = <<>> /\ chatIsLoading = FALSE /\ thinkingText = <<>>
    /\ chatShown = <<>> /\ chatStreams = <<>> /\ chatSubmits = 0

RestOff == ApiOff /\ RunnerOff /\ ChatOff

StreamOff ==
    /\ wire = <<>> /\ sentRecs = <<>> /\ fragmented = FALSE /\ decoderPending = <<>>
    /\ buffer = <<>> /\ lines = <<>> /\ yielded = <<>> /\ gpc = "off"

PanelOff ==
    /\ showCreatePanel = FALSE /\ eventStream = 0 /\ runs = 0
    /\ loadsInFlight = 0 /\ parentDirty = FALSE
    /\ activityLog = <<>> /\ currentActivity = <<>> /\ currentTool = <<>>
    /\ progress = 0 /\ isComplete = FALSE /\ error = <<>>
    /\ preview = "empty" /\ mealPlanResult = <<>>
    /\ effIsComplete = FALSE /\ genQueue = <<>> /\ genState = <<>> /\ produced = 0
    /\ script = <<>>
    /\ folded = <<>> /\ sentTerminal = FALSE /\ onCompleteCalls = 0

StreamInit ==
    /\ sentRecs \in UNION {[1..n -> RecordNames] : n \in 0..MaxRecords}
    /\ wire = BytesOf(sentRecs)
    /\ fragmented = FALSE
    /\ decoderPending = <<>>
    /\ buffer = <<>>
    /\ lines = <<>>
    /\ yielded = <<>>
    /\ gpc = "read"
    /\ SanOff
    /\ PanelOff
    /\ RestOff

\* const { done, value } = await reader.read() with done = false, then
\* buffer += decoder.decode(value, { stream: true }); lines = buffer.split('\n');
\* buffer = lines.pop() || ''
ReadChunk ==
    /\ gpc = "read"
    /\ \E n \in 1..Len(wire) :
        LET value == SubSeq(wire, 1, n)
            d == Decode(decoderPending, value)
            ls == Split(buffer \o d.text, "\n")
        IN  /\ wire' = SubSeq(wire, n + 1, Len(wire))
            /\ decoderPending' = d.pending
            /\ buffer' = NextBuffer(ls)
            /\ lines' = Front(ls)
            /\ fragmented' = (fragmented \/ Last(ls) # <<>> \/ d.pending # <<>>)
    /\ gpc' = "loop"
    /\ UNCHANGED <<sentRecs, yielded, sanVars, panelVars, restVars>>

\* a line of the for-of loop that starts with 'data: ' and parses: yield data
YieldLine ==
    /\ gpc = "loop"
    /\ lines # <<>>
    /\ StartsWith(Head(lines), DataPrefix)
    /\ JSONParse(SliceFrom(Head(lines), 6)).ok
    /\ yielded' = Append(yielded, JSONParse(SliceFrom(Head(lines), 6)).val)
    /\ lines' = Tail(lines)
    /\ UNCHANGED <<wire, sentRecs, fragmented, decoderPending, buffer, gpc, sanVars, panelVars, restVars>>

\* the catch of the inner try rethrows instead of skipping the record
BadJsonAborts ==
    /\ gpc = "loop"
    /\ lines # <<>>
    /\ StartsWith(Head(lines), DataPrefix)
    /\ ~JSONParse(SliceFrom(Head(lines), 6)).ok
    /\ gpc' = "threw"
    /\ lines' = <<>>
    /\ UNCHANGED <<wire, sentRecs, fragmented, decoderPending, buffer, yielded, sanVars, panelVars, restVars>>

\* a 'data: ' line whose payload JSON.parse rejects: catch { /* Skip invalid JSON */ }
SkipBadJson ==
    /\ gpc = "loop"
    /\ lines # <<>>
    /\ StartsWith(Head(lines), DataPrefix)
    /\ ~JSONParse(SliceFrom(Head(lines), 6)).ok
    /\ lines' = Tail(lines)
    /\ UNCHANGED <<wire, sentRecs, fragmented, decoderPending, buffer, yielded, gpc, sanVars, panelVars, restVars>>

\* a line that does not start with 'data: ' (the blank line of the record
\* delimiter, a comment): nothing happens
SkipOtherLine ==
    /\ gpc = "loop"
    /\ lines # <<>>
    /\ ~StartsWith(Head(lines), DataPrefix)
    /\ lines' = Tail(lines)
    /\ UNCHANGED <<wire, sentRecs, fragmented, decoderPending, buffer, yielded, gpc, sanVars, panelVars, restVars>>

\* the for-of loop is over: back to while (true), await reader.read()
LoopEnd ==
    /\ gpc = "loop"
    /\ lines = <<>>
    /\ gpc' = "read"
    /\ UNCHANGED <<wire, sentRecs, fragmented, decoderPending, buffer, lines, yielded, sanVars, panelVars, restVars>>

\* a generator that treats what is left in buffer as one more line
ReadDoneFlushes ==
    /\ gpc = "read"
    /\ wire = <<>>
    /\ gpc' = "done"
    /\ yielded' = (IF StartsWith(buffer, DataPrefix) /\ JSONParse(SliceFrom(buffer, 6)).ok
                   THEN Append(yielded, JSONParse(SliceFrom(buffer, 6)).val)
                   ELSE yielded)
    /\ UNCHANGED <<wire, sentRecs, fragmented, decoderPending, buffer, lines, sanVars, panelVars, restVars>>

\* reader.read() reports done: break, finally reader.releaseLock(); what is
\* left in buffer is never looked at
ReadDone ==
    /\ gpc = "read"
    /\ wire = <<>>
    /\ gpc' = "done"
    /\ UNCHANGED <<wire, sentRecs, fragmented, decoderPending, buffer, lines, yielded, sanVars, panelVars, restVars>>

\* reader.read() rejects (the connection broke): the generator throws
ReadError ==
    /\ gpc = "read"
    /\ gpc' = "threw"
    /\ UNCHANGED <<wire, sentRecs, fragmented, decoderPending, buffer, lines, yielded, sanVars, panelVars, restVars>>

StreamNext ==
    \/ ReadChunk
    \/ YieldLine
    \/ SkipBadJson
    \/ SkipOtherLine
    \/ LoopEnd
    \/ ReadDone
    \/ ReadError

StreamSpec == StreamInit /\ [][StreamNext]_vars

\* what the for-of loop yields for a list of complete lines
EventsOf(ls) ==
    Flatten([k \in 1..Len(ls) |->
               LET r == JSONParse(SliceFrom(ls[k], 6))
               IN  IF StartsWith(ls[k], DataPrefix) /\ r.ok THEN <<r.val>> ELSE <<>>])

\* the events of a run in which the whole byte stream arrives in one read
OneRead(bytes) == EventsOf(Front(Split(Decode(<<>>, bytes).text, "\n")))

-----------------------------------------------------------------------------
(* sanitizeContent, AgentActivityPanel.tsx 198-241.                         *)

\* .slice(0, 200) of the last rule
MaxContentLen == 200

\* .slice(0, 100) of the error-envelope rule
MaxMessageLen == 100

\* \s of the regular expressions, and what trim() removes
JsWs == {" ", "\n", "\r", "\t", "\f"}

MarkerCrewai == <<"<", "c", "r", "e", "w", "a", "i", ".">>

MarkerObjectAt == <<"o", "b", "j", "e", "c", "t", " ", "a", "t", " ", "0", "x">>

MarkerAgentFinish == <<"A", "g", "e", "n", "t", "F", "i", "n", "i", "s", "h", "(">>

MarkerAgentAction == <<"A", "g", "e", "n", "t", "A", "c", "t", "i", "o", "n", "(">>

\* the four tests of lines 202-205
HasMarker(s) ==
    \/ Includes(s, MarkerCrewai)
    \/ Includes(s, MarkerObjectAt)
    \/ Includes(s, MarkerAgentFinish)
    \/ Includes(s, MarkerAgentAction)

TxtToolResultEq == <<"T", "o", "o", "l", "R", "e", "s", "u", "l", "t", "(", "r", "e", "s", "u", "l", "t", "=">>

TxtToolResult == <<"T", "o", "o", "l", "R", "e", "s", "u", "l", "t", "(">>

TxtToolResultQuote == <<"T", "o", "o", "l", "R", "e", "s", "u", "l", "t", "(", "r", "e", "s", "u", "l", "t", "=", "'">>

TxtMessage == <<"m", "e", "s", "s", "a", "g", "e">>

TxtStatus == <<"s", "t", "a", "t", "u", "s">>

TxtErrSingle == <<"{", "'", "s", "t", "a", "t", "u", "s", "'", ":", " ", "'", "e", "r", "r", "o", "r", "'">>

TxtErrDouble == <<"{", "\"", "s", "t", "a", "t", "u", "s", "\"", ":", " ", "\"", "e", "r", "r", "o", "r", "\"">>

TxtCompleted == <<"C", "o", "m", "p", "l", "e", "t", "e", "d">>

TxtToolCompleted == <<"T", "o", "o", "l", " ", "c", "o", "m", "p", "l", "e", "t", "e", "d">>

TxtProcessingError == <<"P", "r", "o", "c", "e", "s", "s", "i", "n", "g", " ", "e", "r", "r", "o", "r", " ", "o", "c", "c", "u", "r", "r", "e", "d">>

\* the first position >= i of s that holds a character of the set cs, Len(s) + 1 if none
FirstIn(s, i, cs) == Least({j \in i..(Len(s) + 1) : j = Len(s) + 1 \/ s[j] \in cs})

\* the first position >= i of s that holds no character of the set cs, Len(s) + 1 if none
FirstNotIn(s, i, cs) == Least({j \in i..(Len(s) + 1) : j = Len(s) + 1 \/ s[j] \notin cs})

\* s.replace(/ab/g, rep) for a two-character pattern with a # b (matches cannot overlap)
ReplacePair(s, a, b, rep) ==
    Flatten([i \in 1..Len(s) |->
               IF s[i] = a /\ i < Len(s) /\ s[i + 1] = b THEN rep
               ELSE IF s[i] = b /\ i > 1 /\ s[i - 1] = a THEN <<>>
               ELSE <<s[i]>>])

\* s.replace(/c/g, rep) for a one-character pattern
ReplaceChar(s, c, rep) == Flatten([i \in 1..Len(s) |-> IF s[i] = c THEN rep ELSE <<s[i]>>])

\* s.replace(/cc/g, '') : in a run of k characters c the first 2 * (k div 2) go
RemoveDoubled(s, c) ==
    LET RunStart(i) == Greatest({k \in 0..(i - 1) : k = 0 \/ s[k] # c}) + 1
        RunEnd(i) == Least({k \in (i + 1)..(Len(s) + 1) : k = Len(s) + 1 \/ s[k] # c}) - 1
        Gone(i) == (i - RunStart(i)) < 2 * ((RunEnd(i) - RunStart(i) + 1) \div 2)
    IN  Flatten([i \in 1..Len(s) |-> IF s[i] = c /\ Gone(i) THEN <<>> ELSE <<s[i]>>])

\* s.replace(/\s+/g, ' ')
CollapseWs(s) ==
    Flatten([i \in 1..Len(s) |->
               IF s[i] \notin JsWs THEN <<s[i]>>
               ELSE IF i = 1 \/ s[i - 1] \notin JsWs THEN <<" ">>
               ELSE <<>>])

\* s.trim()
Trim(s) ==
    LET first == FirstNotIn(s, 1, JsWs)
        last == Greatest({j \in 0..Len(s) : j = 0 \/ s[j] \notin JsWs})
    IN  SubSeq(s, first, last)

\* where the quote after the group of a match of ToolResult(result=' at i would be
ToolResultClose(s, i) == FirstIn(s, i + Len(TxtToolResultQuote), {"'"})

\* the positions at which /ToolResult\(result='([^']+)'/ matches
ToolResultStarts(s) ==
    {i \in 1..Len(s) :
        /\ OccursAt(s, TxtToolResultQuote, i)
        /\ ToolResultClose(s, i) <= Len(s)
        /\ ToolResultClose(s, i) > i + Len(TxtToolResultQuote)}

\* the match at the first of the positions starts
ToolResultGroup(s, starts) ==
    IF starts = {} THEN [ok |-> FALSE, group |-> <<>>]
    ELSE [ok |-> TRUE,
          group |-> SubSeq(s, Least(starts) + Len(TxtToolResultQuote),
                           ToolResultClose(s, Least(starts)) - 1)]

\* content.match(/ToolResult\(result='([^']+)'/): [ok, group]
MatchToolResult(s) == ToolResultGroup(s, ToolResultStarts(s))

\* the quote characters of the class ['"']
MessageQuotes == {"'", "\""}

\* where the quote that opens the group of a match of ['"']message['"]: at i would be
MessageOpen(s, i) == FirstNotIn(s, i + 10, JsWs)

\* where the quote that closes that group would be
MessageClose(s, i) == FirstIn(s, MessageOpen(s, i) + 1, MessageQuotes)

\* the positions at which /['"']message['"]:\s*['"']([^'"]+)['"']/ matches
MessageStarts(s) ==
    {i \in 1..Len(s) :
        /\ s[i] \in MessageQuotes
        /\ OccursAt(s, TxtMessage, i + 1)
        /\ i + 9 <= Len(s)
        /\ s[i + 8] \in MessageQuotes
        /\ s[i + 9] = ":"
        /\ MessageOpen(s, i) <= Len(s)
        /\ s[MessageOpen(s, i)] \in MessageQuotes
        /\ MessageClose(s, i) <= Len(s)
        /\ MessageClose(s, i) > MessageOpen(s, i) + 1}

\* the match at the first of the positions starts
MessageGroup(s, starts) ==
    IF starts = {} THEN [ok |-> FALSE, group |-> <<>>]
    ELSE [ok |-> TRUE,
          group |-> SubSeq(s, MessageOpen(s, Least(starts)) + 1,
                           MessageClose(s, Least(starts)) - 1)]

\* content.match(/['"']message['"]:\s*['"']([^'"]+)['"']/): [ok, group]
MatchMessage(s) == MessageGroup(s, MessageStarts(s))

\* line 216: parsed.message || parsed.status || 'Completed', and the catch
ToolResultMessage(parsed) ==
    IF parsed.ok
    THEN Or(Member(parsed.val, TxtMessage), Or(Member(parsed.val, TxtStatus), TxtCompleted))
    ELSE TxtToolCompleted

\* lines 212-222 with a payload that is never parsed
ToolResultUnparsed(match) == TxtToolCompleted

\* lines 212-222, with match what line 211 found
ToolResultOf(match) ==
    IF ~match.ok THEN TxtToolCompleted
    ELSE ToolResultMessage(JSONParse(ReplaceChar(ReplacePair(match.group, "\\", "'", <<"'">>),
                                                 "'", <<"\"">>)))

\* lines 210-223: the ToolResult rule
SanitizeToolResult(content) == ToolResultOf(MatchToolResult(content))

\* lines 228-231, with msgMatch what line 227 found
ErrorEnvelopeOf(msgMatch) ==
    IF msgMatch.ok THEN SliceTo(msgMatch.group, MaxMessageLen) ELSE TxtProcessingError

\* lines 226-232: the error-envelope rule
SanitizeErrorEnvelope(content) == ErrorEnvelopeOf(MatchMessage(content))

\* lines 235-240: the last rule
SanitizePlain(content) ==
    CHOOSE out \in
        {SliceTo(Trim(s3), MaxContentLen) :
            s3 \in {CollapseWs(s2) :
                s2 \in {RemoveDoubled(s1, "\\") :
                    s1 \in {ReplacePair(content, "\\", "n", <<" ">>)}}}} : TRUE

\* lines 199-240: the rules in the order the function tries them
SanitizeRules(content) ==
    IF content = <<>> THEN <<>>
    ELSE IF HasMarker(content) THEN <<>>
    ELSE IF Includes(content, TxtToolResultEq) \/ Includes(content, TxtToolResult)
         THEN SanitizeToolResult(content)
    ELSE IF Includes(content, TxtErrSingle) \/ Includes(content, TxtErrDouble)
         THEN SanitizeErrorEnvelope(content)
    ELSE SanitizePlain(content)

\* a call of sanitizeContent (198): the argument is evaluated, once, and the
\* rules are applied to its value
sanitizeContent(content) == CHOOSE out \in {SanitizeRules(c) : c \in {content}} : TRUE

-----------------------------------------------------------------------------
(* sanitizeContent called on its own, on texts put together from pieces.    *)

\* bound: how many pieces an input is made of
MaxPieces == 3

\* bound: the length of the long run of letters
LongLen == 201

PieceBoom == <<"b", "o", "o", "m">>

PieceLong == [i \in 1..LongLen |-> "a"]

\* ToolResult(result='{"message": "
PieceWrapOpen == <<"T", "o", "o", "l", "R", "e", "s", "u", "l", "t", "(", "r", "e", "s", "u", "l", "t", "=", "'", "{", "\"", "m", "e", "s", "s", "a", "g", "e", "\"", ":", " ", "\"">>

\* "}')
PieceWrapClose == <<"\"", "}", "'", ")">>

PieceCrewai == <<"<", "c", "r", "e", "w", "a", "i", ".">>

\* "object " and " at 0x": side by side they hold two spaces where the marker has one
PieceObject == <<"o", "b", "j", "e", "c", "t", " ">>

PieceAt0x == <<" ", "a", "t", " ", "0", "x">>

\* {"status": "error", "message": "
PieceEnvelopeOpen == <<"{", "\"", "s", "t", "a", "t", "u", "s", "\"", ":", " ", "\"", "e", "r", "r", "o", "r", "\"", ",", " ", "\"", "m", "e", "s", "s", "a", "g", "e", "\"", ":", " ", "\"">>

\* {'status': 'error', 'message': 'boom'}
PiecePyDict == <<"{", "'", "s", "t", "a", "t", "u", "s", "'", ":", " ", "'", "e", "r", "r", "o", "r", "'", ",", " ", "'", "m", "e", "s", "s", "a", "g", "e", "'", ":", " ", "'", "b", "o", "o", "m", "'", "}">>

\* a backslash and the letter n
PieceBackslashN == <<"\\", "n">>

\* ToolResult(result='
PieceResultOpen == <<"T", "o", "o", "l", "R", "e", "s", "u", "l", "t", "(", "r", "e", "s", "u", "l", "t", "=", "'">>

\* ')
PieceResultClose == <<"'", ")">>

\* {"status": "error"}
PieceJsonStatus == <<"{", "\"", "s", "t", "a", "t", "u", "s", "\"", ":", " ", "\"", "e", "r", "r", "o", "r", "\"", "}">>

TxtStatusError == <<"e", "r", "r", "o", "r">>

SanPieces ==
    {PieceBoom, PieceLong, PieceWrapOpen, PieceWrapClose, PieceCrewai, PieceObject,
     PieceAt0x, PieceEnvelopeOpen, PiecePyDict, PieceBackslashN, PieceResultOpen,
     PieceResultClose, PieceJsonStatus}

SanInputs == {Flatten(ps) : ps \in UNION {[1..n -> SanPieces] : n \in 0..MaxPieces}}

SanInit ==
    /\ sanIn \in SanInputs
    /\ sanOut = <<>>
    /\ sanPc = "call"
    /\ StreamOff
    /\ PanelOff
    /\ RestOff

SanCall ==
    /\ sanPc = "call"
    /\ sanOut' = sanitizeContent(sanIn)
    /\ sanPc' = "ret"
    /\ UNCHANGED <<sanIn, streamVars, panelVars, restVars>>

SanNext == SanCall

SanSpec == SanInit /\ [][SanNext]_vars

\* C10 (sanitizer totality and bound): whatever the input, the value returned
\* is the empty string, or a string of at most 200 characters that holds none
\* of the internal-representation markers.
C10_SanitizerBound ==
    sanPc = "ret" => (sanOut = <<>> \/ (Len(sanOut) <= MaxContentLen /\ ~HasMarker(sanOut)))

\* C14: for a wrapped result without a marker the value returned is the
\* message of the payload if it has one, else its status, whether the payload
\* is written with double quotes or with single quotes; when no payload can
\* be extracted, the value returned is "Tool completed".
C14_WrappedExtraction ==
    sanPc = "ret" =>
        /\ sanIn = PieceWrapOpen \o PieceBoom \o PieceWrapClose => sanOut = PieceBoom
        /\ sanIn = PieceResultOpen \o PieceJsonStatus \o PieceResultClose
              => sanOut = TxtStatusError
        /\ sanIn = PieceResultOpen \o PiecePyDict \o PieceResultClose => sanOut = PieceBoom
        /\ sanIn = PieceResultOpen \o PieceBoom \o PieceResultClose => sanOut = TxtToolCompleted
        /\ sanIn = PieceResultOpen => sanOut = TxtToolCompleted

-----------------------------------------------------------------------------
(* AgentActivityPanel.tsx: the folding of one event (the switch of          *)
(* processStream, 69-174), addToLog (243-257) and incrementProgress         *)
(* (259-261), as functions of the panel's state.                            *)

TxtInitializing == <<"I", "n", "i", "t", "i", "a", "l", "i", "z", "i", "n", "g", ".", ".", ".">>

TxtThinking == <<"T", "h", "i", "n", "k", "i", "n", "g", ".", ".", ".">>

TxtUnknownTool == <<"U", "n", "k", "n", "o", "w", "n", " ", "T", "o", "o", "l">>

TxtUsing == <<"U", "s", "i", "n", "g", " ">>

TxtDots == <<".", ".", ".">>

TxtColon == <<":", " ">>

TxtTool == <<"T", "o", "o", "l">>

TxtTask == <<"T", "a", "s", "k">>

TxtCompletedColon == <<"C", "o", "m", "p", "l", "e", "t", "e", "d", ":", " ">>

\* the check mark and a space
TxtCheck == <<"U+2713", " ">>

TxtCreated == <<"M", "e", "a", "l", " ", "p", "l", "a", "n", " ", "c", "r", "e", "a", "t", "e", "d", " ", "s", "u", "c", "c", "e", "s", "s", "f", "u", "l", "l", "y", "!">>

TxtAnErrorOccurred == <<"A", "n", " ", "e", "r", "r", "o", "r", " ", "o", "c", "c", "u", "r", "r", "e", "d">>

\* the warning sign, then " Error: "
TxtWarnError == <<"U+26A0">> \o <<" ", "E", "r", "r", "o", "r", ":", " ">>

\* what a template literal makes of undefined
TxtUndefined == <<"u", "n", "d", "e", "f", "i", "n", "e", "d">>

\* the cap of incrementProgress
ProgressCap == 95

ProgressFull == 100

IncThinking == 5

IncToolStart == 10

IncToolResult == 10

IncTaskComplete == 15

\* the useState cells as one record
PanelState ==
    [activityLog |-> activityLog, currentActivity |-> currentActivity,
     currentTool |-> currentTool, progress |-> progress, isComplete |-> isComplete,
     error |-> error, preview |-> preview, mealPlanResult |-> mealPlanResult]

\* the initial values of the useState cells (34-41), which the reset effect
\* (45-56) sets again
InitialState ==
    [activityLog |-> <<>>, currentActivity |-> TxtInitializing, currentTool |-> <<>>,
     progress |-> 0, isComplete |-> FALSE, error |-> <<>>, preview |-> "empty",
     mealPlanResult |-> <<>>]

\* lines 246-256 without the test of line 245
addUnfiltered(st, type, sanitized) ==
    [st EXCEPT !.activityLog = Append(@, [type |-> type, content |-> sanitized])]

\* lines 246-256, with sanitized what line 244 computed
addSanitized(st, type, sanitized) ==
    IF sanitized = <<>> \/ Len(sanitized) < 3 THEN st
    ELSE [st EXCEPT !.activityLog = Append(@, [type |-> type, content |-> sanitized])]

\* addToLog({ type, content })
addToLog(st, type, content) == addSanitized(st, type, sanitizeContent(content))

\* incrementProgress without Math.min
incrementUncapped(st, amount) == [st EXCEPT !.progress = @ + amount]

\* incrementProgress(amount): setProgress(prev => Math.min(prev + amount, 95))
incrementProgress(st, amount) ==
    [st EXCEPT !.progress = IF @ + amount < ProgressCap THEN @ + amount ELSE ProgressCap]

\* lines 73-81, with content what line 72 computed
ThinkingOf(st, content) ==
    IF content # <<>>
    THEN incrementProgress(
             addToLog([st EXCEPT !.currentActivity = content, !.currentTool = <<>>],
                      "agent_thinking", content),
             IncThinking)
    ELSE st

\* case 'agent_thinking' (70-83)
FoldAgentThinking(st, event) ==
    ThinkingOf(st, sanitizeContent(Or(event.content, TxtThinking)))

\* lines 89-95, with toolName and inputSummary what lines 87-88 computed
ToolStartOf(st, toolName, inputSummary) ==
    incrementProgress(
        addToLog([st EXCEPT !.currentTool = toolName,
                            !.currentActivity = Or(inputSummary, TxtUsing \o toolName \o TxtDots)],
                 "tool_start",
                 TxtUsing \o toolName
                     \o (IF inputSummary # <<>> THEN TxtColon \o inputSummary ELSE <<>>)),
        IncToolStart)

\* case 'tool_start' (85-97)
FoldToolStart(st, event) ==
    ToolStartOf(st, Or(event.tool, TxtUnknownTool), sanitizeContent(event.input_summary))

\* lines 102-108 with incrementProgress inside the if
ToolResultCountedIfLogged(st, event, summary) ==
    IF summary # <<>>
    THEN incrementProgress(
             addToLog(st, "tool_result",
                      TxtCheck \o Or(event.tool, TxtTool) \o TxtColon \o summary),
             IncToolResult)
    ELSE st

\* lines 102-108, with summary what line 101 computed
ToolResultLogged(st, event, summary) ==
    incrementProgress(
        IF summary # <<>>
        THEN addToLog(st, "tool_result",
                      TxtCheck \o Or(event.tool, TxtTool) \o TxtColon \o summary)
        ELSE st,
        IncToolResult)

\* case 'tool_result' (99-110)
FoldToolResult(st, event) ==
    ToolResultLogged(st, event, sanitizeContent(Or(event.summary, TxtCompleted)))

\* lines 117-124, with taskName and summary what lines 115-116 computed
TaskCompleteOf(st, taskName, summary) ==
    incrementProgress(
        IF taskName # <<>> \/ summary # <<>>
        THEN addToLog([st EXCEPT !.currentActivity = TxtCompletedColon \o Or(taskName, TxtTask)],
                      "task_complete",
                      TxtCheck \o taskName \o TxtColon \o summary)
        ELSE st,
        IncTaskComplete)

\* case 'task_complete' (112-126)
FoldTaskComplete(st, event) ==
    TaskCompleteOf([st EXCEPT !.currentTool = <<>>],
                   sanitizeContent(Or(event.task, TxtTask)),
                   sanitizeContent(Or(event.summary, TxtCompleted)))

\* case 'preview_update' counted as work
FoldPreviewCounted(st, event) ==
    IF event.days THEN incrementProgress([st EXCEPT !.preview = "event"], IncThinking) ELSE st

\* case 'preview_update' (128-132)
FoldPreviewUpdate(st, event) ==
    IF event.days THEN [st EXCEPT !.preview = "event"] ELSE st

\* case 'complete' without its log entry
FoldCompleteUnlogged(st, event) ==
    LET st1 == [st EXCEPT !.progress = ProgressFull, !.isComplete = TRUE,
                          !.currentActivity = TxtCreated, !.currentTool = <<>>]
    IN  IF event.meal_plan # <<>>
        THEN [st1 EXCEPT !.mealPlanResult = event.meal_plan, !.preview = "planned"]
        ELSE st1

\* case 'complete' (134-159), but for the call of onComplete
FoldComplete(st, event) ==
    LET st1 == addToLog([st EXCEPT !.progress = ProgressFull, !.isComplete = TRUE,
                                   !.currentActivity = TxtCreated, !.currentTool = <<>>],
                        "complete", TxtCheck \o TxtCreated)
    IN  IF event.meal_plan # <<>>
        THEN [st1 EXCEPT !.mealPlanResult = event.meal_plan, !.preview = "planned"]
        ELSE st1

\* case 'error' that shows the generic message whatever the event carries
FoldErrorGeneric(st, event) ==
    addToLog([st EXCEPT !.error = TxtAnErrorOccurred],
             "error",
             TxtWarnError \o (IF event.content # <<>> THEN event.content ELSE TxtUndefined))

\* case 'error' (161-167)
FoldError(st, event) ==
    addToLog([st EXCEPT !.error = Or(event.content, TxtAnErrorOccurred)],
             "error",
             TxtWarnError \o (IF event.content # <<>> THEN event.content ELSE TxtUndefined))

\* case 'done' (169-173); isComplete is the value the closure captured
FoldDone(st, closureIsComplete) ==
    IF ~closureIsComplete THEN [st EXCEPT !.progress = ProgressFull] ELSE st

\* the switch with a default case that counts the event as work
FoldCountsUnknown(st, event, closureIsComplete) ==
    CASE event.type = "agent_thinking" -> FoldAgentThinking(st, event)
      [] event.type = "tool_start" -> FoldToolStart(st, event)
      [] event.type = "tool_result" -> FoldToolResult(st, event)
      [] event.type = "task_complete" -> FoldTaskComplete(st, event)
      [] event.type = "preview_update" -> FoldPreviewUpdate(st, event)
      [] event.type = "complete" -> FoldComplete(st, event)
      [] event.type = "error" -> FoldError(st, event)
      [] event.type = "done" -> FoldDone(st, closureIsComplete)
      [] OTHER -> incrementProgress(st, IncThinking)

\* the switch (69-174); an event of any other type falls through it
Fold(st, event, closureIsComplete) ==
    CASE event.type = "agent_thinking" -> FoldAgentThinking(st, event)
      [] event.type = "tool_start" -> FoldToolStart(st, event)
      [] event.type = "tool_result" -> FoldToolResult(st, event)
      [] event.type = "task_complete" -> FoldTaskComplete(st, event)
      [] event.type = "preview_update" -> FoldPreviewUpdate(st, event)
      [] event.type = "complete" -> FoldComplete(st, event)
      [] event.type = "error" -> FoldError(st, event)
      [] event.type = "done" -> FoldDone(st, closureIsComplete)
      [] OTHER -> st

-----------------------------------------------------------------------------
(* The events a stream delivers.  A field a record does not carry is <<>>   *)
(* (undefined); the fields carried are never the empty string.              *)

NoEvent ==
    [type |-> "", content |-> <<>>, tool |-> <<>>, input_summary |-> <<>>,
     summary |-> <<>>, task |-> <<>>, meal_plan |-> <<>>, days |-> FALSE]

TxtStartingMealPlan == <<"S", "t", "a", "r", "t", "i", "n", "g", " ", "m", "e", "a", "l", " ", "p", "l", "a", "n", ".", ".", ".">>

TxtCreateMealPlanTool == <<"C", "r", "e", "a", "t", "e", "M", "e", "a", "l", "P", "l", "a", "n", "T", "o", "o", "l">>

TxtCreatingPlan == <<"C", "r", "e", "a", "t", "i", "n", "g", " ", "p", "l", "a", "n">>

TxtMealPlanCreated == <<"M", "e", "a", "l", " ", "p", "l", "a", "n", " ", "c", "r", "e", "a", "t", "e", "d">>

TxtMealPlanFor7Days == <<"M", "e", "a", "l", " ", "p", "l", "a", "n", " ", "f", "o", "r", " ", "7", " ", "d", "a", "y", "s">>

TxtUpstreamFailure == <<"u", "p", "s", "t", "r", "e", "a", "m", " ", "f", "a", "i", "l", "u", "r", "e">>

\* <crewai.Agent object at 0x7f>
TxtAgentRepr == <<"<", "c", "r", "e", "w", "a", "i", ".", "A", "g", "e", "n", "t", " ", "o", "b", "j", "e", "c", "t", " ", "a", "t", " ", "0", "x", "7", "f", ">">>

TxtOk == <<"o", "k">>

\* ToolResult(result='{"status":"error","message":"boom"}')
TxtWrappedBoom == <<"T", "o", "o", "l", "R", "e", "s", "u", "l", "t", "(", "r", "e", "s", "u", "l", "t", "=", "'", "{", "\"", "s", "t", "a", "t", "u", "s", "\"", ":", "\"", "e", "r", "r", "o", "r", "\"", ",", "\"", "m", "e", "s", "s", "a", "g", "e", "\"", ":", "\"", "b", "o", "o", "m", "\"", "}", "'", ")">>

TxtPlanMeals == <<"P", "l", "a", "n", " ", "m", "e", "a", "l", "s">>

\* the message of the Error the generator throws when the response is not ok (195)
TxtCreationFailed == <<"M", "e", "a", "l", " ", "p", "l", "a", "n", " ", "c", "r", "e", "a", "t", "i", "o", "n", " ", "f", "a", "i", "l", "e", "d", ":", " ", "5", "0", "0">>

EvThinking == [NoEvent EXCEPT !.type = "agent_thinking", !.content = TxtStartingMealPlan]

EvThinkingRepr == [NoEvent EXCEPT !.type = "agent_thinking", !.content = TxtAgentRepr]

\* an agent_thinking whose content is shorter than a log entry may be
EvThinkingShort == [NoEvent EXCEPT !.type = "agent_thinking", !.content = TxtOk]

EvToolStart ==
    [NoEvent EXCEPT !.type = "tool_start", !.tool = TxtCreateMealPlanTool,
                    !.input_summary = TxtCreatingPlan]

\* a tool_start whose tool is the repr of an object and that has no input_summary
EvToolStartRepr == [NoEvent EXCEPT !.type = "tool_start", !.tool = TxtAgentRepr]

EvToolResult ==
    [NoEvent EXCEPT !.type = "tool_result", !.tool = TxtCreateMealPlanTool,
                    !.summary = TxtMealPlanCreated]

\* a tool_result without a tool whose summary is a wrapped result
EvToolResultWrapped == [NoEvent EXCEPT !.type = "tool_result", !.summary = TxtWrappedBoom]

\* a tool_result whose summary is the repr of an object
EvToolResultRepr ==
    [NoEvent EXCEPT !.type = "tool_result", !.tool = TxtCreateMealPlanTool,
                    !.summary = TxtAgentRepr]

\* a tool_result whose tool is the repr of an object
EvToolResultReprTool ==
    [NoEvent EXCEPT !.type = "tool_result", !.tool = TxtAgentRepr,
                    !.summary = TxtMealPlanCreated]

\* a task_complete whose task and summary are the repr of an object
EvTaskCompleteRepr ==
    [NoEvent EXCEPT !.type = "task_complete", !.task = TxtAgentRepr, !.summary = TxtAgentRepr]

EvTaskComplete ==
    [NoEvent EXCEPT !.type = "task_complete", !.task = TxtPlanMeals, !.summary = TxtMealPlanCreated]

EvPreviewUpdate == [NoEvent EXCEPT !.type = "preview_update", !.days = TRUE]

EvComplete == [NoEvent EXCEPT !.type = "complete", !.meal_plan = TxtMealPlanFor7Days]

EvCompleteNoPlan == [NoEvent EXCEPT !.type = "complete"]

EvError == [NoEvent EXCEPT !.type = "error", !.content = TxtUpstreamFailure]

EvDone == [NoEvent EXCEPT !.type = "done"]

\* an event of a type the panel does not know
EvHeartbeat == [NoEvent EXCEPT !.type = "heartbeat"]

\* the events after which the server sends nothing more
TerminalTypes == {"complete", "error", "done"}

Events ==
    {EvThinking, EvThinkingRepr, EvToolStart, EvToolResult, EvTaskComplete, EvPreviewUpdate,
     EvComplete, EvCompleteNoPlan, EvError, EvDone, EvHeartbeat, EvThinkingShort,
     EvToolStartRepr}

-----------------------------------------------------------------------------
(* MealPlansPage and AgentActivityPanel as a state machine.                 *)
(*                                                                          *)
(* A request queued on an async generator is "cur" (a next() of the         *)
(* processStream whose isCancelled is false), "old" (a next() of a          *)
(* processStream whose effect has been cleaned up) or "ret" (the return()   *)
(* that leaving for-await with break calls).  Requests are served in order. *)

\* bound: how many events the streams deliver, all runs together
MaxEvents == 3

\* bound: how many times Generate is pressed
MaxRuns == 2

Runs == 1..MaxRuns

SetState(st) ==
    /\ activityLog' = st.activityLog
    /\ currentActivity' = st.currentActivity
    /\ currentTool' = st.currentTool
    /\ progress' = st.progress
    /\ isComplete' = st.isComplete
    /\ error' = st.error
    /\ preview' = st.preview
    /\ mealPlanResult' = st.mealPlanResult

\* the effect cleanup: isCancelled = true for the processStream that is running
Cancelled(q) == [k \in 1..Len(q) |-> IF q[k] = "cur" THEN "old" ELSE q[k]]

\* a generator that finds return() at the head of its queue completes (its
\* finally releases the reader) and answers every request behind it with done
Served(q) == IF q # <<>> /\ Head(q) = "ret" THEN <<>> ELSE q

PanelInit ==
    /\ showCreatePanel = FALSE
    /\ eventStream = 0
    /\ runs = 0
    /\ loadsInFlight = 1
    /\ parentDirty = FALSE
    /\ activityLog = InitialState.activityLog
    /\ currentActivity = InitialState.currentActivity
    /\ currentTool = InitialState.currentTool
    /\ progress = InitialState.progress
    /\ isComplete = InitialState.isComplete
    /\ error = InitialState.error
    /\ preview = InitialState.preview
    /\ mealPlanResult = InitialState.mealPlanResult
    /\ effIsComplete = FALSE
    /\ genQueue = [r \in Runs |-> <<>>]
    /\ genState = [r \in Runs |-> "open"]
    /\ produced = 0
    /\ script = <<>>
    /\ folded = <<>>
    /\ sentTerminal = FALSE
    /\ onCompleteCalls = 0
    /\ SanOff
    /\ StreamOff
    /\ RestOff

\* handleStartCreate with a panel whose reset effect does nothing
handleStartCreateStale(trace) ==
    /\ runs < MaxRuns
    /\ script' = trace
    /\ runs' = runs + 1
    /\ eventStream' = runs + 1
    /\ showCreatePanel' = TRUE
    /\ parentDirty' = FALSE
    /\ genQueue' = [r \in Runs |->
                      IF r = runs + 1 THEN <<"cur">> ELSE Cancelled(genQueue[r])]
    /\ folded' = <<>>
    /\ sentTerminal' = FALSE
    /\ onCompleteCalls' = 0
    /\ UNCHANGED <<loadsInFlight, stateVars, effIsComplete, genState, produced, streamVars,
                   sanVars, restVars>>

\* handleStartCreate (part_005 690-696) and the commit that follows: the reset
\* effect (45-56) and the stream-processing effect (59-188) run, the latter
\* with the isComplete of that render; if that was true, the render the reset
\* causes changes the dependency isComplete, so the effect is cleaned up and
\* run again, and a second processStream queues behind the first
handleStartCreate(trace) ==
    /\ runs < MaxRuns
    /\ script' = trace
    /\ runs' = runs + 1
    /\ eventStream' = runs + 1
    /\ showCreatePanel' = TRUE
    /\ parentDirty' = FALSE
    /\ SetState(InitialState)
    /\ effIsComplete' = FALSE
    /\ genQueue' = [r \in Runs |->
                      IF r = runs + 1 THEN (IF isComplete THEN <<"old", "cur">> ELSE <<"cur">>)
                      ELSE Cancelled(genQueue[r])]
    /\ folded' = <<>>
    /\ sentTerminal' = FALSE
    /\ onCompleteCalls' = 0
    /\ UNCHANGED <<loadsInFlight, genState, produced, streamVars, sanVars, restVars>>

\* handlePanelClose (part_005 704-708), from the close button (313-317, enabled
\* once isComplete or error), the backdrop (286) or Done (484), and the commit that
\* follows: the cleanup of the stream-processing effect
handlePanelClose ==
    /\ showCreatePanel
    /\ isComplete \/ error # <<>>
    /\ showCreatePanel' = FALSE
    /\ eventStream' = 0
    /\ parentDirty' = FALSE
    /\ genQueue' = [r \in Runs |-> Cancelled(genQueue[r])]
    /\ UNCHANGED <<runs, loadsInFlight, stateVars, effIsComplete, genState, produced, script,
                   histVars, streamVars, sanVars, restVars>>

\* the fetch of a loadMealPlans (part_005 677-688) resolves: setMealPlans,
\* setLoading (and, from handlePanelComplete, setCreateForm)
LoadResolved ==
    /\ loadsInFlight > 0
    /\ loadsInFlight' = loadsInFlight - 1
    /\ parentDirty' = TRUE
    /\ UNCHANGED <<showCreatePanel, eventStream, runs, stateVars, effectVars, histVars,
                   streamVars, sanVars, restVars>>

\* React renders what is pending.  With the panel open on a stream, a render
\* of the page hands the panel a new onComplete, and a render of the panel may
\* show a new isComplete: either changes the dependencies of the
\* stream-processing effect (188), which is cleaned up and run again on the
\* same generator
Render ==
    /\ parentDirty \/ (eventStream # 0 /\ isComplete # effIsComplete)
    /\ parentDirty' = FALSE
    /\ IF eventStream # 0
       THEN /\ effIsComplete' = isComplete
            /\ genQueue' = [genQueue EXCEPT ![eventStream] =
                              IF genState[eventStream] # "open" THEN Cancelled(@)
                              ELSE Append(Cancelled(@), "cur")]
       ELSE UNCHANGED <<effIsComplete, genQueue>>
    /\ UNCHANGED <<showCreatePanel, eventStream, runs, loadsInFlight, stateVars, genState,
                   produced, script, histVars, streamVars, sanVars, restVars>>

\* the generator of run r yields an event to the processStream that is
\* running: the event is folded, a complete that carries a meal plan calls
\* onComplete (157; handlePanelComplete starts a loadMealPlans, whose
\* setLoading leaves the page to render), and the loop asks for the next
Deliver(r, event) ==
    /\ genState[r] = "open"
    /\ genQueue[r] # <<>>
    /\ Head(genQueue[r]) = "cur"
    /\ produced' = produced + 1
    /\ \E st \in {Fold(PanelState, event, effIsComplete)} : SetState(st)
    /\ folded' = Append(folded, event)
    /\ sentTerminal' = (sentTerminal \/ event.type \in TerminalTypes)
    /\ IF event.type = "complete" /\ event.meal_plan # <<>>
       THEN /\ onCompleteCalls' = onCompleteCalls + 1
            /\ loadsInFlight' = loadsInFlight + 1
            /\ parentDirty' = TRUE
       ELSE UNCHANGED <<onCompleteCalls, loadsInFlight, parentDirty>>
    /\ genQueue' = [genQueue EXCEPT ![r] = Served(Append(Tail(@), "cur"))]
    /\ genState' = [genState EXCEPT ![r] =
                       IF Served(Append(Tail(genQueue[r]), "cur")) = <<>> THEN "returned" ELSE @]
    /\ UNCHANGED <<showCreatePanel, eventStream, runs, effIsComplete, streamVars, sanVars, restVars>>

\* a server that may send any event at any time
DeliverAny ==
    /\ produced < MaxEvents
    /\ \E r \in Runs, event \in Events : Deliver(r, event)
    /\ UNCHANGED script

\* the generator of run r yields an event to a processStream whose effect has
\* been cleaned up: if (isCancelled) break (67), which calls return()
DeliverToCancelled(r, terminal) ==
    /\ genState[r] = "open"
    /\ genQueue[r] # <<>>
    /\ Head(genQueue[r]) = "old"
    /\ produced' = produced + 1
    /\ genQueue' = [genQueue EXCEPT ![r] = Served(Append(Tail(@), "ret"))]
    /\ genState' = [genState EXCEPT ![r] =
                       IF Served(Append(Tail(genQueue[r]), "ret")) = <<>> THEN "returned" ELSE @]
    /\ sentTerminal' = (sentTerminal \/ (r = runs /\ terminal))
    /\ UNCHANGED <<pageVars, stateVars, effIsComplete, folded, onCompleteCalls,
                   streamVars, sanVars, restVars>>

DropAny ==
    /\ produced < MaxEvents
    /\ \E r \in Runs, terminal \in BOOLEAN : DeliverToCancelled(r, terminal)
    /\ UNCHANGED script

\* reader.read() reports done while the generator of run r serves a request:
\* the generator completes and every processStream waiting on it ends
StreamEnd(r) ==
    /\ genState[r] = "open"
    /\ genQueue[r] # <<>>
    /\ genQueue' = [genQueue EXCEPT ![r] = <<>>]
    /\ genState' = [genState EXCEPT ![r] = "ended"]
    /\ UNCHANGED <<pageVars, stateVars, effIsComplete, produced, histVars, streamVars, sanVars, restVars>>

EndAny == (\E r \in Runs : StreamEnd(r)) /\ UNCHANGED script

\* a catch without the test of isCancelled
StreamThrowUnguarded(r) ==
    /\ genState[r] = "open"
    /\ genQueue[r] # <<>>
    /\ genQueue' = [genQueue EXCEPT ![r] = <<>>]
    /\ genState' = [genState EXCEPT ![r] = "threw"]
    /\ SetState([PanelState EXCEPT !.error = TxtCreationFailed])
    /\ UNCHANGED <<pageVars, effIsComplete, produced, histVars, streamVars, sanVars, restVars>>

\* the generator of run r throws while it serves a request (fetch or
\* reader.read() rejects, the response is not ok): the processStream that
\* made the request lands in its catch (176-180)
StreamThrow(r) ==
    /\ genState[r] = "open"
    /\ genQueue[r] # <<>>
    /\ genQueue' = [genQueue EXCEPT ![r] = <<>>]
    /\ genState' = [genState EXCEPT ![r] = "threw"]
    /\ IF Head(genQueue[r]) = "cur"
       THEN SetState([PanelState EXCEPT !.error = TxtCreationFailed])
       ELSE UNCHANGED stateVars
    /\ UNCHANGED <<pageVars, effIsComplete, produced, histVars, streamVars, sanVars, restVars>>

ThrowAny == (\E r \in Runs : StreamThrow(r)) /\ UNCHANGED script

PanelNext ==
    \/ handleStartCreate(<<>>)
    \/ handlePanelClose
    \/ LoadResolved
    \/ Render
    \/ DeliverAny
    \/ DropAny
    \/ EndAny
    \/ ThrowAny

PanelSpec == PanelInit /\ [][PanelNext]_vars

-----------------------------------------------------------------------------
(* The same page and panel against a server that plays one of the scripted  *)
(* event sequences (the mocked stream of e2e/server-health.spec.ts, and the *)
(* failure path) and then closes the stream.  Reads may end anywhere, so    *)
(* React may render between any two events.                                 *)

ScenarioA == <<EvThinking, EvToolStart, EvToolResult, EvComplete, EvDone>>

ScenarioC == <<EvThinking, EvError, EvDone>>

\* the connection is lost after the first event
ScenarioCut == <<EvThinking>>

\* a tool reports a failure in a wrapped result
ScenarioB == <<EvToolResultWrapped>>

\* more work than the progress bar has room for
ScenarioBusy ==
    <<EvTaskComplete, EvTaskComplete, EvTaskComplete, EvTaskComplete, EvTaskComplete,
      EvToolStart, EvToolResult, EvThinking>>

Scenarios == {ScenarioA, ScenarioC, ScenarioCut}

\* the scripts that exercise the sanitizer and the cap of the progress bar
\* results and tasks that carry the repr of an object, and one that does not
ScenarioReprs == <<EvToolResultRepr, EvToolResultReprTool, EvTaskCompleteRepr, EvTaskComplete>>

Workloads == {ScenarioA, ScenarioB, ScenarioBusy, ScenarioReprs}

ScriptedStart == \E trace \in Scenarios : handleStartCreate(trace)

ScriptedDeliver ==
    /\ runs > 0
    /\ script # <<>>
    /\ Deliver(runs, Head(script))
    /\ script' = Tail(script)

ScriptedDrop ==
    /\ runs > 0
    /\ script # <<>>
    /\ DeliverToCancelled(runs, Head(script).type \in TerminalTypes)
    /\ script' = Tail(script)

ScriptedEnd ==
    /\ runs > 0
    /\ script = <<>>
    /\ StreamEnd(runs)
    /\ UNCHANGED script

ScenarioNext ==
    \/ ScriptedStart
    \/ handlePanelClose
    \/ LoadResolved
    \/ Render
    \/ ScriptedDeliver
    \/ ScriptedDrop
    \/ ScriptedEnd

ScenarioSpec == PanelInit /\ [][ScenarioNext]_vars

WorkloadStart == \E trace \in Workloads : handleStartCreate(trace)

WorkloadNext ==
    \/ WorkloadStart
    \/ handlePanelClose
    \/ LoadResolved
    \/ Render
    \/ ScriptedDeliver
    \/ ScriptedDrop
    \/ ScriptedEnd

WorkloadSpec == PanelInit /\ [][WorkloadNext]_vars

\* React renders what it has scheduled, a fetch settles (the finally of
\* loadMealPlans runs either way), and the scripted server sends what it has
\* to send and then closes the stream; the user may never press anything
ScenarioLiveSpec ==
    /\ ScenarioSpec
    /\ WF_vars(Render)
    /\ WF_vars(LoadResolved)
    /\ WF_vars(ScriptedDeliver)
    /\ WF_vars(ScriptedDrop)
    /\ WF_vars(ScriptedEnd)

-----------------------------------------------------------------------------
(* Claims about the panel.                                                  *)

\* processStream folds one more event of the run
FoldStep == Len(folded') = Len(folded) + 1

SeenType(types) == \E i \in DOMAIN folded : folded[i].type \in types

WorkTypes == {"agent_thinking", "tool_start", "tool_result", "task_complete"}

\* how many times the run has captured an artifact: setMealPlanResult (150)
Captures == Cardinality({i \in DOMAIN folded :
                            folded[i].type = "complete" /\ folded[i].meal_plan # <<>>})

\* C2: within one run whose events include no error event, progress never
\* decreases from one fold step to the next, also when work events follow a
\* complete or a done.
C2_MonotonicProgress ==
    [][(FoldStep /\ \A i \in DOMAIN folded' : folded'[i].type # "error")
          => progress' >= progress]_vars

\* C3: once a complete or an error event has been folded in a run, a later
\* agent_thinking, tool_start, tool_result or task_complete event of that run
\* changes none of progress, log, currentActivity, currentTool, isComplete,
\* error and mealPlanResult.
C3_FrozenAfterTerminal ==
    [][(FoldStep /\ SeenType({"complete", "error"}) /\ folded'[Len(folded')].type \in WorkTypes)
          => UNCHANGED <<progress, activityLog, currentActivity, currentTool, isComplete,
                         error, mealPlanResult>>]_vars

\* C4: within one run onComplete is called at most once and the artifact is
\* captured at most once, whatever the server sends and however often the
\* processing effect is run again.
C4_ExactlyOnceCompletion == onCompleteCalls <= 1 /\ Captures <= 1

\* C5 as the specification states it: after folding agent_thinking,
\* tool_start, tool_result, complete(artifact), done the panel shows progress
\* 100, isComplete, no error, the artifact of the complete event, and a log
\* of exactly 3 entries.
C5_ScenarioA_ThreeEntries ==
    folded = ScenarioA =>
        /\ progress = ProgressFull
        /\ isComplete
        /\ error = <<>>
        /\ mealPlanResult = EvComplete.meal_plan
        /\ Len(activityLog) = 3

\* C5: after folding agent_thinking, tool_start, tool_result,
\* complete(artifact), done the panel shows progress 100, isComplete, no
\* error, the artifact of the complete event, and a log of exactly 4 entries:
\* one for each of the first three events and one the complete case appends.
C5_ScenarioA ==
    folded = ScenarioA =>
        /\ progress = ProgressFull
        /\ isComplete
        /\ error = <<>>
        /\ mealPlanResult = EvComplete.meal_plan
        /\ Len(activityLog) = 4
        /\ activityLog[4].type = "complete"

C5_Witness ==
    /\ folded = ScenarioA
    /\ genState[runs] = "ended"
    /\ Len(activityLog) = 4
    /\ mealPlanResult = TxtMealPlanFor7Days

\* C6: after folding agent_thinking, error(message), done the panel has
\* isComplete false and error equal to the message of the error event, and
\* folding the done does not change the log the error left.
C6_ScenarioC ==
    /\ [](folded = ScenarioC => ~isComplete /\ error = EvError.content)
    /\ [][(FoldStep /\ folded' = ScenarioC) => activityLog' = activityLog]_vars

C6_Witness ==
    /\ folded = ScenarioC
    /\ error = TxtUpstreamFailure
    /\ Len(activityLog) = 2
    /\ activityLog[2].type = "error"

\* C7: after an error event has been folded, progress keeps the value it had
\* for the rest of the run; a following done does not set it to 100.
C7_ErrorStopsProgress ==
    [][(FoldStep /\ SeenType({"error"})) => progress' = progress]_vars

\* C9: if the stream of the run on display ends (the reader reports done)
\* before the generator has yielded a complete, an error or a done, the panel
\* eventually shows an error (or the run is no longer the one on display).
C9_TransportFailureSurfaced ==
    (runs > 0 /\ eventStream = runs /\ genState[runs] = "ended" /\ ~sentTerminal)
        ~> (error # <<>> \/ eventStream # runs)

-----------------------------------------------------------------------------
(* Claims about what the panel shows and logs.                              *)

\* C11: the panel never shows a string that holds a marker of an internal
\* representation: not in currentActivity, not in currentTool, not in error
\* and not in the content of a log entry, whatever the fields of the events
\* carried.
C11_NoMarkerDisplayed ==
    /\ ~HasMarker(currentActivity)
    /\ ~HasMarker(currentTool)
    /\ ~HasMarker(error)
    /\ \A i \in DOMAIN activityLog : ~HasMarker(activityLog[i].content)

\* the event processStream folds in this step
FoldedEvent == folded'[Len(folded')]

\* C12: within a run the log only grows, by one entry at the end and only
\* when an event is folded; the content of the entry is what sanitizeContent
\* returned and has at least 3 characters; an event whose text is the
\* representation of an object appends no entry.
C12_LogAdmission ==
    [][runs' = runs =>
          /\ \/ activityLog' = activityLog
             \/ /\ FoldStep
                /\ Len(activityLog') = Len(activityLog) + 1
                /\ SubSeq(activityLog', 1, Len(activityLog)) = activityLog
                /\ Len(Last(activityLog').content) >= 3
                /\ ~HasMarker(Last(activityLog').content)
          /\ (FoldStep /\ (HasMarker(FoldedEvent.content) \/ HasMarker(FoldedEvent.tool)))
                => activityLog' = activityLog]_vars

\* a marker-only content and a two-character content were refused, a clean one logged
C12_Witness ==
    /\ folded = <<EvThinkingRepr, EvThinkingShort, EvThinking>>
    /\ Len(activityLog) = 1
    /\ activityLog[1].content = TxtStartingMealPlan

\* C13 as stated: Scenario B, a tool_result whose summary is the wrapped
\* result ToolResult(result='{"status":"error","message":"boom"}'), appends a
\* log entry whose content equals "boom".
C13_ScenarioB_Bare ==
    folded = ScenarioB => (Len(activityLog) = 1 /\ activityLog[1].content = PieceBoom)

\* C13: Scenario B, a tool_result whose summary is the wrapped result
\* ToolResult(result='{"status":"error","message":"boom"}'), appends one log
\* entry of type tool_result whose content is the check mark, the tool name
\* ("Tool" when the event names none), a colon and the extracted message
\* "boom", and nothing of the wrapper.
C13_ScenarioB ==
    folded = ScenarioB =>
        /\ Len(activityLog) = 1
        /\ activityLog[1].type = "tool_result"
        /\ activityLog[1].content = TxtCheck \o TxtTool \o TxtColon \o PieceBoom

C13_Witness == folded = ScenarioB /\ Len(activityLog) = 1 /\ progress = IncToolResult

\* the types the switch has a case for
KnownTypes == WorkTypes \cup {"preview_update"} \cup TerminalTypes

\* C15: folding an event of a type the panel does not know changes no field
\* but, at most, the log by one appended entry, and sets no error; the loop
\* goes on unless the return() of a cancelled loop was already queued on the
\* generator.
C15_UnknownEventHarmless ==
    [][(FoldStep /\ FoldedEvent.type \notin KnownTypes) =>
          /\ UNCHANGED <<currentActivity, currentTool, progress, isComplete, error, preview,
                         mealPlanResult>>
          /\ \/ activityLog' = activityLog
             \/ /\ Len(activityLog') = Len(activityLog) + 1
                /\ SubSeq(activityLog', 1, Len(activityLog)) = activityLog
          /\ genState'[eventStream] # "open"
                => \E k \in DOMAIN genQueue[eventStream] : genQueue[eventStream][k] = "ret"]_vars

\* the event after the unknown one is folded as it is after none
C15_Witness ==
    /\ folded = <<EvHeartbeat, EvThinking>>
    /\ progress = IncThinking
    /\ currentActivity = TxtStartingMealPlan
    /\ Len(activityLog) = 1

\* C16: folding done after a complete of the run changes no field; folding
\* done when neither complete nor error was folded sets progress to 100 and
\* changes nothing else; both wherever done falls, in the chunk of complete or
\* later, before or after the render that follows complete.
C16_DoneSemantics ==
    [][(FoldStep /\ FoldedEvent.type = "done") =>
          /\ SeenType({"complete"}) => UNCHANGED stateVars
          /\ ~SeenType({"complete", "error"})
                => /\ progress' = ProgressFull
                   /\ UNCHANGED <<activityLog, currentActivity, currentTool, isComplete, error,
                                  preview, mealPlanResult>>]_vars

\* C17: folding a preview_update changes preview only: progress, the log,
\* currentActivity, currentTool, isComplete, error and mealPlanResult stay as
\* they are.
C17_PreviewFrame ==
    [][(FoldStep /\ FoldedEvent.type = "preview_update") =>
          UNCHANGED <<progress, activityLog, currentActivity, currentTool, isComplete, error,
                      mealPlanResult>>]_vars

C17_Witness ==
    /\ folded = <<EvThinking, EvPreviewUpdate>>
    /\ preview = "event"
    /\ progress = IncThinking
    /\ Len(activityLog) = 1

\* C18: from the moment the panel is opened with a new stream until the
\* first event of that stream is folded, the state is the initial one
\* (progress 0, empty log, no tool, not complete, no error, empty preview, no
\* meal plan), whatever an earlier run left behind; the one thing that can
\* change it before an event is the failure of the new stream itself.
C18_FreshStatePerRun ==
    (runs > 0 /\ folded = <<>>) =>
        /\ [PanelState EXCEPT !.error = <<>>] = InitialState
        /\ error # <<>> => (genState[runs] = "threw" /\ error = TxtCreationFailed)

\* a second run has started after the first had folded events and ended in
\* complete, and none of its events has been folded yet
C18_Witness ==
    /\ runs = 2
    /\ produced > 0
    /\ genQueue[2] = <<"old", "cur">>
    /\ folded = <<>>
    /\ PanelState = InitialState

\* C19: progress is always an integer from 0 to 100, and as long as neither
\* complete nor done has been folded in the run it is at most 95, however
\* many work events were folded.
C19_BoundedProgress ==
    /\ progress \in 0..ProgressFull
    /\ ~SeenType({"complete", "done"}) => progress <= ProgressCap

\* eight work events whose increments add up to 100 have been folded
C19_Witness == folded = ScenarioBusy /\ progress = ProgressCap /\ Len(activityLog) = 8

\* C20: folding an agent_thinking event while the run is neither complete
\* nor failed clears currentTool and adds the increment of 5 to progress (up
\* to the cap), whatever the content of the event is, also when it is absent
\* or sanitizes to the empty string; a content that sanitizes to a non-empty
\* string becomes currentActivity.
C20_ThinkingRule ==
    [][(FoldStep /\ FoldedEvent.type = "agent_thinking" /\ ~isComplete /\ error = <<>>) =>
          /\ currentTool' = <<>>
          /\ progress' = (IF progress + IncThinking < ProgressCap THEN progress + IncThinking
                          ELSE ProgressCap)
          /\ sanitizeContent(Or(FoldedEvent.content, TxtThinking)) # <<>>
                => currentActivity' = sanitizeContent(Or(FoldedEvent.content, TxtThinking))]_vars

\* progress after incrementProgress(amount)
Raised(amount) == IF progress + amount < ProgressCap THEN progress + amount ELSE ProgressCap

\* the step appends one entry to the log
LogGrows == Len(activityLog') = Len(activityLog) + 1

\* what lines 101, 115 and 116 compute from the event folded in this step
SanitizedSummary == sanitizeContent(Or(FoldedEvent.summary, TxtCompleted))

SanitizedTask == sanitizeContent(Or(FoldedEvent.task, TxtTask))

\* the text of the log entry of a tool_result (105) and of a task_complete (121)
ResultLine == TxtCheck \o Or(FoldedEvent.tool, TxtTool) \o TxtColon \o SanitizedSummary

TaskLine == TxtCheck \o SanitizedTask \o TxtColon \o SanitizedSummary

\* C21 as stated: folding a tool_result or a task_complete while the run is
\* neither complete nor failed adds the increment (10, 15) to progress whether
\* or not an entry is logged, and an entry is logged if and only if the
\* sanitized content of the event (the summary; for task_complete the task
\* name or the summary) is not empty.
C21_ResultRule_Iff ==
    [][(FoldStep /\ ~isComplete /\ error = <<>>) =>
          /\ FoldedEvent.type = "tool_result"
                => /\ progress' = Raised(IncToolResult)
                   /\ LogGrows <=> SanitizedSummary # <<>>
          /\ FoldedEvent.type = "task_complete"
                => /\ progress' = Raised(IncTaskComplete)
                   /\ LogGrows <=> (SanitizedTask # <<>> \/ SanitizedSummary # <<>>)]_vars

\* C21: folding a tool_result or a task_complete while the run is neither
\* complete nor failed adds the increment (10, 15) to progress whether or not
\* an entry is logged, and an entry is logged if and only if the sanitized
\* content of the event is not empty and the line composed from it, sanitized
\* again, has at least 3 characters (a tool name that is the repr of an
\* object empties it).
C21_ResultRule ==
    [][(FoldStep /\ ~isComplete /\ error = <<>>) =>
          /\ FoldedEvent.type = "tool_result"
                => /\ progress' = Raised(IncToolResult)
                   /\ LogGrows <=> (SanitizedSummary # <<>>
                                      /\ Len(sanitizeContent(ResultLine)) >= 3)
          /\ FoldedEvent.type = "task_complete"
                => /\ progress' = Raised(IncTaskComplete)
                   /\ LogGrows <=> ((SanitizedTask # <<>> \/ SanitizedSummary # <<>>)
                                      /\ Len(sanitizeContent(TaskLine)) >= 3)]_vars

\* three events that logged nothing and still raised progress, and one that logged
C21_Witness ==
    /\ folded = ScenarioReprs
    /\ Len(activityLog) = 1
    /\ progress = IncToolResult + IncToolResult + IncTaskComplete + IncTaskComplete

\* the generator of a stream that is not the one on display takes a step
OldStreamActs ==
    \E r \in Runs : /\ r # eventStream
                     /\ (genQueue'[r] # genQueue[r] \/ genState'[r] # genState[r])

\* C22: once the effect that processes a stream has been cleaned up (the
\* panel was closed or a new run replaced the stream), nothing that stream
\* does, neither an event it yields nor an exception it throws, changes any
\* cell of the panel's state.
C22_ExclusiveOwnership ==
    [][(runs' = runs /\ eventStream' = eventStream /\ OldStreamActs)
          => UNCHANGED stateVars]_vars

\* a second run is on display and has folded nothing, and the stream of the
\* first run has yielded to its cancelled loop since
C22_Witness ==
    /\ runs = 2
    /\ eventStream = 2
    /\ genState[1] = "returned"
    /\ genState[2] = "open"
    /\ produced = 2
    /\ folded = <<>>
    /\ PanelState = InitialState

\* the generator of the stream on display yields an event
DisplayedStreamYields ==
    /\ eventStream # 0
    /\ eventStream' = eventStream
    /\ produced' = produced + 1
    /\ genQueue'[eventStream] # genQueue[eventStream]

\* C25: while the panel stays open on one stream, every event the stream
\* yields is folded, once and in order, also when the processing effect is
\* cleaned up and run again on the same generator (isComplete changed, or
\* the page rendered and handed over a new onComplete): the cancelled loop
\* takes no event and does not close the generator.
C25_NoEventLost ==
    [][DisplayedStreamYields =>
          /\ FoldStep
          /\ genState'[eventStream] = "open"]_vars

\* C27: in every state of a run, isComplete implies that progress is 100: no
\* event folded after complete lowers progress while isComplete stays true.
C27_CompleteMeansFull == isComplete => progress = ProgressFull

\* C28: sanitizing what sanitizeContent returned returns it unchanged, so the
\* second sanitization in addToLog never alters or drops sanitized content.
C28_SanitizerIdempotent == sanPc = "ret" => sanitizeContent(sanOut) = sanOut

-----------------------------------------------------------------------------
(* Claims about the stream generators.                                      *)

\* the event a well-formed record of the model carries, as JSON.parse returns it
RecordEvents(name) ==
    CASE name = "done" -> <<  <<  <<<<"t", "y", "p", "e">>, <<"d", "o", "n", "e">>>>  >>  >>
      [] name = "accent" -> <<  <<  <<<<"t", "y", "p", "e">>, <<"U+00E9">>>>  >>  >>
      [] OTHER -> <<>>

\* the events of the records written, in the order written
ExpectedEvents(recs) == Flatten([k \in 1..Len(recs) |-> RecordEvents(recs[k])])

AllTerminated(recs) == \A k \in 1..Len(recs) : recs[k] # "cut"

\* C1 (fragmentation independence): however the reads cut the byte stream, a
\* generator that has run to the end of the stream has yielded exactly the
\* events, in order, that it yields when the whole stream arrives in one read.
C1_FragmentationIndependence ==
    gpc = "done" => yielded = OneRead(BytesOf(sentRecs))

\* a finished run of at least two events whose reads cut inside a record
C1_Witness ==
    /\ gpc = "done"
    /\ fragmented
    /\ Len(yielded) >= 2

\* C8 (malformed record isolation): a step of the loop over the lines of a
\* read never throws, and when every record written was terminated, a finished
\* run has yielded the events of exactly the well-formed records, in order.
C8_MalformedIsolation ==
    /\ [](gpc = "done" /\ AllTerminated(sentRecs) => yielded = ExpectedEvents(sentRecs))
    /\ [][gpc = "loop" => gpc' # "threw"]_vars

\* a finished, fragmented run with a malformed record between two well-formed ones
C8_Witness ==
    /\ gpc = "done"
    /\ fragmented
    /\ sentRecs = <<"done", "malformed", "accent">>
    /\ Len(yielded) = 2

\* the events of the records that end with a line terminator and do not follow,
\* on the same line, a record that has none
TerminatedEvents(recs) ==
    Flatten([k \in 1..Len(recs) |->
               IF k > 1 /\ recs[k - 1] = "cut" THEN <<>> ELSE RecordEvents(recs[k])])

\* C26: when the reader reports done, what is left in the buffer is dropped
\* without being decoded: a last data record without a line terminator is
\* never yielded, and a finished run has yielded exactly the events of the
\* lines that start with "data: ", end with a line terminator and parse as
\* JSON, in the order of the stream.
C26_TailDiscarded ==
    /\ [](gpc = "done" => yielded = TerminatedEvents(sentRecs))
    /\ [][(gpc = "read" /\ gpc' = "done") => (yielded' = yielded /\ buffer' = buffer)]_vars

\* a finished run whose last record, a well-formed done, had no line terminator
C26_Witness ==
    /\ gpc = "done"
    /\ sentRecs = <<"done", "accent", "cut">>
    /\ buffer = RecCut
    /\ Len(yielded) = 2


(***************************************************************************)
(* services/api.ts, fetchApi: the wrapper every pendingRecipeApi operation *)
(* returns the promise of.                                                 *)
(***************************************************************************)

\* The operations of pendingRecipeApi (427-490); each is `return fetchApi(...)`.
pendingRecipeApi == {"parseUrl", "discover", "list", "get", "update", "approve", "reject"}

\* JavaScript values a field of the error body can hold.
Undefined == [t |-> "undefined", s |-> "undefined"]

Str(text) == [t |-> "string", s |-> text]

\* A validation error's detail: an array of objects; s is what String() makes of it.
DetailList == [t |-> "array", s |-> "[object Object]"]

\* JavaScript truthiness, as `||` applies it on line 43.
Truthy(v) == v.t = "array" \/ (v.t = "string" /\ v.s # "")

Details == {Undefined, Str(""), Str("Failed to parse URL"), DetailList}

BodyMessages == {Undefined, Str(""), Str("Internal server error")}

\* What response.json() gives: a rejection (the body is no JSON), or a value.
UnreadableBody == [readable |-> FALSE, json |-> "none", detail |-> Undefined,
                   message |-> Undefined]

ScalarBody(kind) == [readable |-> TRUE, json |-> kind, detail |-> Undefined,
                     message |-> Undefined]

ObjectBody(d, m) == [readable |-> TRUE, json |-> "object", detail |-> d, message |-> m]

Bodies ==
    {UnreadableBody, ScalarBody("null"), ScalarBody("number"), ScalarBody("string")}
        \cup {ObjectBody(d, m) : d \in Details, m \in BodyMessages}

Statuses == {200, 204, 400, 500}

\* Response.ok
Ok(status) == status \in 200..299

NetworkError == [name |-> "Error", message |-> "Network error"]

InvalidJson == [name |-> "SyntaxError", message |-> "Invalid JSON"]

\* What reading a property of null throws.
NullRead == [name |-> "TypeError", message |-> "Cannot read properties of null"]

Responses ==
    {[op |-> o, settled |-> "rejected", reason |-> NetworkError, status |-> 0,
      body |-> UnreadableBody] : o \in pendingRecipeApi}
        \cup {[op |-> o, settled |-> "fulfilled", reason |-> NetworkError, status |-> st,
               body |-> b] : o \in pendingRecipeApi, st \in Statuses, b \in Bodies}

Rejects(err) == [settled |-> "rejected", name |-> err.name, message |-> err.message,
                 value |-> UnreadableBody]

Resolves(body) == [settled |-> "resolved", name |-> "", message |-> "", value |-> body]

\* line 42: response.json().catch(() => ({ message: 'Request failed' }))
ErrorBody(resp) ==
    IF resp.body.readable THEN resp.body
    ELSE ObjectBody(Undefined, Str("Request failed"))

\* line 43: error.detail || error.message || `HTTP ${response.status}`
ErrorMessage(errorBody, status) ==
    IF Truthy(errorBody.detail) THEN errorBody.detail.s
    ELSE IF Truthy(errorBody.message) THEN errorBody.message.s
    ELSE "HTTP " \o ToString(status)

\* A variant of fetchApi that hands the error body to the caller.
fetchApiLenient(resp) ==
    IF resp.settled = "rejected" THEN Rejects(resp.reason)
    ELSE IF resp.body.readable THEN Resolves(resp.body)
    ELSE Rejects(InvalidJson)

\* fetchApi (27-47): how the promise it returns settles, given how fetch settled.
fetchApi(resp) ==
    IF resp.settled = "rejected" THEN Rejects(resp.reason)
    ELSE IF ~Ok(resp.status)
    THEN IF ErrorBody(resp).json = "null" THEN Rejects(NullRead)
         ELSE Rejects([name |-> "Error",
                       message |-> ErrorMessage(ErrorBody(resp), resp.status)])
    ELSE IF resp.body.readable THEN Resolves(resp.body)
    ELSE Rejects(InvalidJson)

FetchInit ==
    /\ apiResponse \in Responses
    /\ apiOutcome = <<>>
    /\ apiPc = "call"
    /\ StreamOff /\ SanOff /\ PanelOff /\ RunnerOff /\ ChatOff

FetchCall ==
    /\ apiPc = "call"
    /\ apiOutcome' = fetchApi(apiResponse)
    /\ apiPc' = "ret"
    /\ UNCHANGED <<apiResponse, streamVars, sanVars, panelVars, runnerVars, chatVars>>

FetchNext == FetchCall

FetchSpec == FetchInit /\ [][FetchNext]_vars

\* The message the rule "detail, else message, else HTTP <status>" names for a response.
StatedMessage(resp) ==
    IF Truthy(resp.body.detail) THEN resp.body.detail.s
    ELSE IF Truthy(resp.body.message) THEN resp.body.message.s
    ELSE "HTTP " \o ToString(resp.status)

Failed(resp) == resp.settled = "fulfilled" /\ ~Ok(resp.status)

\* C23 as stated: every response with ok = false rejects with an Error whose message is
\* the body's detail, else its message, else 'HTTP <status>'.
C23_ApiErrorsReject_AnyBody ==
    (apiPc = "ret" /\ Failed(apiResponse))
        => /\ apiOutcome.settled = "rejected"
           /\ apiOutcome.name = "Error"
           /\ apiOutcome.message = StatedMessage(apiResponse)

\* C23: a call through fetchApi never resolves when the response has ok = false, when
\* fetch rejected, or when a successful response's body cannot be read.  A rejected
\* fetch propagates its error unchanged; an unreadable successful body rejects with the
\* reader's error; with ok = false the Error's message is the body's detail, else its
\* message, else 'HTTP <status>' when the body is readable and not null, it is
\* 'Request failed' when the body cannot be read, and a null body rejects with the
\* TypeError of reading its detail.
C23_ApiErrorsReject ==
    apiPc = "ret" =>
        /\ apiResponse.settled = "rejected"
             => apiOutcome = Rejects(apiResponse.reason)
        /\ (apiResponse.settled = "fulfilled" /\ Ok(apiResponse.status)
                /\ ~apiResponse.body.readable)
             => apiOutcome = Rejects(InvalidJson)
        /\ Failed(apiResponse)
             => /\ apiOutcome.settled = "rejected"
                /\ (apiResponse.body.readable /\ apiResponse.body.json # "null")
                     => /\ apiOutcome.name = "Error"
                        /\ apiOutcome.message = StatedMessage(apiResponse)
                /\ ~apiResponse.body.readable
                     => /\ apiOutcome.name = "Error"
                        /\ apiOutcome.message = "Request failed"
                /\ apiResponse.body.json = "null" => apiOutcome.name = "TypeError"

C23_Witness ==
    /\ apiPc = "ret"
    /\ apiResponse.op = "list"
    /\ apiResponse.settled = "fulfilled"
    /\ apiResponse.status = 500
    /\ ~apiResponse.body.readable
    /\ apiOutcome.settled = "rejected"
    /\ apiOutcome.message = "Request failed"


(***************************************************************************)
(* The execution runner / event emitter: the producer of one run's events. *)
(* INIT -> RUNNING -> {COMPLETE | FAILED} -> CLOSED; a run that aborts     *)
(* abnormally stops where it is and emits nothing more.                    *)
(***************************************************************************)

\* Work events a run may emit besides its terminal events and done.
MaxEmitted == 5

\* The trace the mocked endpoint of the end-to-end test writes.
MockStream == <<"agent_thinking", "tool_start", "tool_result", "complete", "done">>

Emit(type) == emitted' = Append(emitted, type)

RunnerIdle == StreamOff /\ SanOff /\ PanelOff /\ ApiOff /\ ChatOff

RunnerInit ==
    /\ runnerState = "INIT"
    /\ subTask = FALSE
    /\ emitted = <<>>
    /\ RunnerIdle

RunnerKeeps == UNCHANGED <<streamVars, sanVars, panelVars, apiVars, chatVars>>

RunnerStart ==
    /\ runnerState = "INIT"
    /\ runnerState' = "RUNNING"
    /\ UNCHANGED <<subTask, emitted>>
    /\ RunnerKeeps

RunnerThinks ==
    /\ runnerState = "RUNNING"
    /\ Len(emitted) < MaxEmitted
    /\ Emit("agent_thinking")
    /\ UNCHANGED <<runnerState, subTask>>
    /\ RunnerKeeps

\* A sub-task brackets itself: tool_start before ...
RunnerToolStart ==
    /\ runnerState = "RUNNING"
    /\ ~subTask
    /\ Len(emitted) < MaxEmitted
    /\ subTask' = TRUE
    /\ Emit("tool_start")
    /\ UNCHANGED runnerState
    /\ RunnerKeeps

\* ... and tool_result, or task_complete for a higher-level step, after.
RunnerToolResult ==
    /\ runnerState = "RUNNING"
    /\ subTask
    /\ subTask' = FALSE
    /\ \E type \in {"tool_result", "task_complete"} : Emit(type)
    /\ UNCHANGED runnerState
    /\ RunnerKeeps

\* preview_update, at any point of the run's work.
RunnerPreview ==
    /\ runnerState = "RUNNING"
    /\ Len(emitted) < MaxEmitted
    /\ Emit("preview_update")
    /\ UNCHANGED <<runnerState, subTask>>
    /\ RunnerKeeps

\* Success: exactly one complete carrying the final artifact.
RunnerComplete ==
    /\ runnerState = "RUNNING"
    /\ ~subTask
    /\ runnerState' = "COMPLETE"
    /\ Emit("complete")
    /\ UNCHANGED subTask
    /\ RunnerKeeps

\* A runner that goes on with its sub-tasks after reporting the failure.
RunnerFailsOn ==
    /\ runnerState = "RUNNING"
    /\ Emit("error")
    /\ UNCHANGED <<runnerState, subTask>>
    /\ RunnerKeeps

\* Unrecoverable failure, inside or between sub-tasks: exactly one error.
RunnerFails ==
    /\ runnerState = "RUNNING"
    /\ runnerState' = "FAILED"
    /\ subTask' = FALSE
    /\ Emit("error")
    /\ RunnerKeeps

\* done, after the terminal event.
RunnerCloses ==
    /\ runnerState \in {"COMPLETE", "FAILED"}
    /\ runnerState' = "CLOSED"
    /\ Emit("done")
    /\ UNCHANGED subTask
    /\ RunnerKeeps

\* The run aborts abnormally (the process dies, the connection breaks).
RunnerAborts ==
    /\ runnerState \in {"INIT", "RUNNING", "COMPLETE", "FAILED"}
    /\ runnerState' = "ABORTED"
    /\ UNCHANGED <<subTask, emitted>>
    /\ RunnerKeeps

RunnerNext ==
    \/ RunnerStart
    \/ RunnerThinks
    \/ RunnerToolStart
    \/ RunnerToolResult
    \/ RunnerPreview
    \/ RunnerComplete
    \/ RunnerFails
    \/ RunnerCloses
    \/ RunnerAborts

RunnerSpec == RunnerInit /\ [][RunnerNext]_vars

EmittedCount(type) == Cardinality({i \in 1..Len(emitted) : emitted[i] = type})

\* C24: a run emits at most one complete and at most one error, no tool_start,
\* tool_result, task_complete or agent_thinking after an error, and done, if emitted, is
\* the last event; a run that closed without aborting emitted exactly one of complete
\* and error, once, immediately followed by done.
C24_ProducerTraceShape ==
    /\ EmittedCount("complete") <= 1
    /\ EmittedCount("error") <= 1
    /\ \A i, j \in 1..Len(emitted) :
           (i < j /\ emitted[i] = "error")
               => emitted[j] \notin {"tool_start", "tool_result", "task_complete",
                                     "agent_thinking"}
    /\ \A i \in 1..Len(emitted) : emitted[i] = "done" => i = Len(emitted)
    /\ (runnerState \in {"COMPLETE", "FAILED"}) => EmittedCount("done") = 0
    /\ runnerState = "CLOSED"
           => /\ Len(emitted) >= 2
              /\ emitted[Len(emitted)] = "done"
              /\ emitted[Len(emitted) - 1] \in {"complete", "error"}
              /\ EmittedCount("complete") + EmittedCount("error") = 1

C24_Witness == runnerState = "CLOSED" /\ emitted = MockStream


(***************************************************************************)
(* pages/ChatPage.tsx: the chat form and handleSubmit, which consumes      *)
(* chatApi.streamMessage.  handleSubmit reads input and isLoading from the *)
(* render its closure was created in; the state setters write the cells.   *)
(***************************************************************************)

\* Submit events delivered to the form.
MaxSubmits == 2

\* Events one chat stream yields.
MaxChatEvents == 2

\* What the input field can hold besides the empty text: a blank, and a question.  The
\* input is a sequence of characters (trim acts on it); every other text is a sequence
\* of pieces, which the page only copies and concatenates.
ChatInputs == {<<" ">>, <<"e", "g", "g", "s", " ">>}

ChatEvents ==
    {[type |-> "thinking", content |-> <<"Searching recipes">>],
     [type |-> "token", content |-> <<"Hi">>],
     [type |-> "complete", content |-> <<>>],
     [type |-> "complete", content |-> <<"Here you go">>],
     [type |-> "error", content |-> <<"boom">>],
     [type |-> "done", content |-> <<>>]}

\* What streamMessage throws: `Chat request failed: ${response.status}` (369), 'No
\* response body' (374), or the rejection of fetch or of reader.read().
ChatFailures == {<<"Error: Chat request failed: 500">>, <<"TypeError: Failed to fetch">>}

ChatStreamIds == 1..Len(chatStreams)

\* generateId() (5-7), made unique by position: the placeholder of the k-th submission.
assistantMessageId(k) == 2 * k

userMessageId(k) == 2 * k - 1

\* prev.map(m => m.id === assistantMessageId ? { ...m, content, isStreaming } : m)
MapPlaceholder(prev, id, content, streaming) ==
    [i \in DOMAIN prev |->
        IF prev[i].id = id
        THEN [prev[i] EXCEPT !.content = content, !.isStreaming = streaming]
        ELSE prev[i]]

Placeholder(msgs, k) ==
    CHOOSE m \in {msgs[i] : i \in DOMAIN msgs} : m.id = assistantMessageId(k)

ChatIdle == StreamOff /\ SanOff /\ PanelOff /\ ApiOff /\ RunnerOff

ChatKeeps == UNCHANGED <<streamVars, sanVars, panelVars, apiVars, runnerVars>>

ChatInit ==
    /\ chatMessages = <<>>
    /\ chatInput = <<>>
    /\ chatIsLoading = FALSE
    /\ thinkingText = <<>>
    /\ chatShown = [input |-> <<>>, isLoading |-> FALSE]
    /\ chatStreams = <<>>
    /\ chatSubmits = 0
    /\ ChatIdle

\* onChange of the input (188), which is disabled while the rendered isLoading is true.
ChatType ==
    /\ ~chatShown.isLoading
    /\ \E text \in ChatInputs :
           /\ text # chatInput
           /\ chatInput' = text
    /\ UNCHANGED <<chatMessages, chatIsLoading, thinkingText, chatShown, chatStreams,
                   chatSubmits>>
    /\ ChatKeeps

\* React renders ChatPage: handleSubmit is created anew over the cells' values.
ChatRender ==
    /\ chatShown # [input |-> chatInput, isLoading |-> chatIsLoading]
    /\ chatShown' = [input |-> chatInput, isLoading |-> chatIsLoading]
    /\ UNCHANGED <<chatMessages, chatInput, chatIsLoading, thinkingText, chatStreams,
                   chatSubmits>>
    /\ ChatKeeps

\* handleSubmit up to its first await (24-54).
handleSubmit ==
    /\ chatSubmits < MaxSubmits
    /\ chatSubmits' = chatSubmits + 1
    /\ IF Trim(chatShown.input) = <<>> \/ chatShown.isLoading
       THEN UNCHANGED <<chatMessages, chatInput, chatIsLoading, thinkingText, chatStreams>>
       ELSE /\ chatMessages' =
                  chatMessages \o
                      <<[id |-> userMessageId(Len(chatStreams) + 1), role |-> "user",
                         content |-> Trim(chatShown.input), isStreaming |-> FALSE],
                        [id |-> assistantMessageId(Len(chatStreams) + 1),
                         role |-> "assistant", content |-> <<>>, isStreaming |-> TRUE]>>
            /\ chatInput' = <<>>
            /\ chatIsLoading' = TRUE
            /\ thinkingText' = <<>>
            /\ chatStreams' = Append(chatStreams,
                                     [pc |-> "open", fullContent |-> <<>>, events |-> 0,
                                      message |-> Trim(chatShown.input)])
    /\ UNCHANGED chatShown
    /\ ChatKeeps

\* One turn of the for-await loop of the k-th submission (54-87).
ChatEvent(k, event) ==
    /\ chatStreams[k].pc = "open"
    /\ chatStreams[k].events < MaxChatEvents
    /\ chatStreams' =
           [chatStreams EXCEPT
               ![k].events = @ + 1,
               ![k].fullContent = IF event.type = "token" THEN @ \o event.content ELSE @]
    /\ thinkingText' = IF event.type = "thinking" THEN event.content ELSE thinkingText
    /\ chatMessages' =
           CASE event.type = "token" ->
                    MapPlaceholder(chatMessages, assistantMessageId(k),
                                   chatStreams'[k].fullContent,
                                   Placeholder(chatMessages, k).isStreaming)
             [] event.type = "complete" ->
                    MapPlaceholder(chatMessages, assistantMessageId(k),
                                   IF event.content # <<>> THEN event.content
                                   ELSE chatStreams[k].fullContent,
                                   FALSE)
             [] event.type = "error" ->
                    MapPlaceholder(chatMessages, assistantMessageId(k),
                                   <<"Error: ">> \o event.content, FALSE)
             [] OTHER -> chatMessages
    /\ UNCHANGED <<chatInput, chatIsLoading, chatShown, chatSubmits>>
    /\ ChatKeeps

\* The stream of the k-th submission ends: the loop is left and finally runs (97-100).
ChatStreamEnd(k) ==
    /\ chatStreams[k].pc = "open"
    /\ chatStreams' = [chatStreams EXCEPT ![k].pc = "finished"]
    /\ chatIsLoading' = FALSE
    /\ thinkingText' = <<>>
    /\ UNCHANGED <<chatMessages, chatInput, chatShown, chatSubmits>>
    /\ ChatKeeps

\* streamMessage throws: catch (89-96), then finally (97-100).
ChatStreamThrow(k) ==
    /\ chatStreams[k].pc = "open"
    /\ \E failure \in ChatFailures :
           chatMessages' = MapPlaceholder(chatMessages, assistantMessageId(k),
                                          <<"Sorry, an error occurred: ">> \o failure, FALSE)
    /\ chatStreams' = [chatStreams EXCEPT ![k].pc = "finished"]
    /\ chatIsLoading' = FALSE
    /\ thinkingText' = <<>>
    /\ UNCHANGED <<chatInput, chatShown, chatSubmits>>
    /\ ChatKeeps

ChatNext ==
    \/ ChatType
    \/ ChatRender
    \/ handleSubmit
    \/ \E k \in ChatStreamIds, event \in ChatEvents : ChatEvent(k, event)
    \/ \E k \in ChatStreamIds : ChatStreamEnd(k)
    \/ \E k \in ChatStreamIds : ChatStreamThrow(k)

ChatSpec == ChatInit /\ [][ChatNext]_vars

OpenChatStreams == {k \in ChatStreamIds : chatStreams[k].pc = "open"}

\* C29: when handleSubmit finishes for a submission (its stream ended, with or without a
\* complete or error event, or threw), isLoading is false and the placeholder created
\* for that submission has isStreaming = false.
C29_ChatSettles ==
    [][\A k \in ChatStreamIds :
           (chatStreams[k].pc = "open" /\ chatStreams'[k].pc = "finished")
               => /\ ~chatIsLoading'
                  /\ ~Placeholder(chatMessages', k).isStreaming]_vars

\* C30: at most one chat stream is open at any time, and a submit that arrives while a
\* stream is open starts no request and appends no message.
C30_SingleInFlight ==
    /\ [](Cardinality(OpenChatStreams) <= 1)
    /\ [][(chatSubmits' = chatSubmits + 1 /\ OpenChatStreams # {})
             => UNCHANGED <<chatMessages, chatStreams>>]_vars

====
